---- MODULE Spec2Model ----
(***************************************************************************)
(* State-machine model of the FlexiRoaster pipeline execution engine       *)
(* (src/pipeline/backend): PipelineExecutor, RedisStateManager, the        *)
(* execution routes and the execution CRUD layer.                          *)
(*                                                                         *)
(* Granularity: one action is the code a coroutine runs between two        *)
(* suspension points (a Redis call that is awaited, a handler invocation,  *)
(* a sleep); synchronous database blocks are atomic.                       *)
(***************************************************************************)
EXTENDS Integers, Sequences, FiniteSets, TLC

(***************************************************************************)
(* Bounds of the model                                                     *)
(***************************************************************************)
\* start requests (execute_pipeline coroutines)
MaxRequests == 2
\* stop requests, and pause requests
MaxControl == 1
\* handler invocations that raise or time out
MaxFailures == 2
\* start requests that may precede a shutdown
MaxStartsBeforeShutdown == 1
\* stages of a pipeline definition given to the planner
MaxStages == 3
\* entries of one stage's dependency list
MaxDeps == 2
\* uuid4 draws of the in-memory service, and seconds on its clock
MaxUuids == 3
MaxTime == 2
\* seconds on the clock up to which the liveness watch waits
MaxClock == 130
\* retry_count and max_retries given to select_safe_action
MaxRetryInput == 4
MaxLockRows == 4
\* clients of the pipeline routes, and committed writes of one pipeline row
MaxClients == 2
MaxWrites == 2
\* callers of acquire_execution_lock
MaxCallers == 3

(***************************************************************************)
(* Program constants (src/pipeline/backend/config.py)                      *)
(***************************************************************************)
EXECUTOR_DEFAULT_TIMEOUT == 300
HEARTBEAT_INTERVAL == 30
HEARTBEAT_TTL == 90
EXECUTOR_STAGE_TIMEOUT == 120
EXECUTOR_MAX_RETRIES == 3
EXECUTOR_RETRY_DELAY == 1
EXECUTOR_RETRY_BACKOFF == 2
AI_RISK_THRESHOLD_HIGH == 700
AI_RISK_THRESHOLD_MEDIUM == 400
AI_RISK_THRESHOLD_LOW == 200
RISK_THRESHOLD_CRITICAL == 900
AI_ANOMALY_ERROR_THRESHOLD == 5
\* round(min(risk_score, 1.0), 3): scores are 0 .. 1000 thousandths
MaxScore == 1000
\* await asyncio.sleep(5) of shutdown, await asyncio.sleep(1) of the paused poll
SHUTDOWN_WAIT == 5
PAUSE_POLL == 1

(***************************************************************************)
(* Optional values: None is the empty set, Some(x) the singleton.          *)
(* Strings that the code tests for truthiness are token sequences, the     *)
(* empty string being <<>>.                                                *)
(***************************************************************************)
None == {}
Some(x) == {x}
Val(o) == CHOOSE x \in o : TRUE
Truthy(o) == o # None /\ o # Some(<<>>)

(***************************************************************************)
(* Pipelines.  create_pipeline names a pipeline "pipeline-" followed by    *)
(* hex digits; identifiers are character sequences so that the slice       *)
(* pipeline_id[:8] of execute_pipeline is computed, not assumed.           *)
(***************************************************************************)
PipelineId(h) == <<"p", "i", "p", "e", "l", "i", "n", "e", "-">> \o h
PipeA == PipelineId(<<"a">>)
PipeB == PipelineId(<<"b">>)
Pipelines == {PipeA, PipeB}

\* Definitions create_pipeline stores as they are posted: no stage, a
\* dependency cycle, a dependency on a stage that is not there.
PipeEmpty == PipelineId(<<"c">>)
PipeCycle == PipelineId(<<"d">>)
PipeMissing == PipelineId(<<"e">>)
DraftPipelines == {PipeEmpty, PipeCycle, PipeMissing}
AllPipelines == Pipelines \cup DraftPipelines

\* timeout and retry_delay are the defaults s.get(...) falls back to.
StageConfig(id, type, deps, retries, critical) ==
    [id |-> id, stage_type |-> type, dependencies |-> deps,
     timeout |-> EXECUTOR_STAGE_TIMEOUT,
     max_retries |-> retries, retry_delay |-> EXECUTOR_RETRY_DELAY,
     is_critical |-> critical]

\* PipeA: scenario "critical failure" (every stage critical).
\* PipeB: scenario "non-critical skip" (middle stage non-critical), listed
\*        out of dependency order.
PipelineStages(p) ==
    IF p = PipeA
    THEN << StageConfig("A", "input", <<>>, 0, TRUE),
            StageConfig("B", "transform", <<"A">>, 1, TRUE),
            StageConfig("C", "output", <<"B">>, 0, TRUE) >>
    ELSE IF p = PipeB
    THEN << StageConfig("A", "input", <<>>, 0, TRUE),
            StageConfig("C", "output", <<"A">>, 0, TRUE),
            StageConfig("B", "validation", <<"A">>, 1, FALSE) >>
    ELSE IF p = PipeCycle
    THEN << StageConfig("A", "input", <<"B">>, 0, TRUE),
            StageConfig("B", "output", <<"A">>, 0, TRUE) >>
    ELSE IF p = PipeMissing
    THEN << StageConfig("A", "input", <<>>, 0, TRUE),
            StageConfig("B", "output", <<"Z">>, 0, TRUE) >>
    ELSE <<>>

StageIds == {"A", "B", "C"}
Range(s) == {s[i] : i \in 1..Len(s)}

\* next((s for s in context.stages if s.id == stage_id), None)
StageById(stages, sid) ==
    stages[CHOOSE i \in 1..Len(stages) :
              /\ stages[i].id = sid
              /\ \A j \in 1..(i - 1) : stages[j].id # sid]

\* execution_id = f"exec-{timestamp}-{pipeline_id[:8]}"
Prefix8(s) == SubSeq(s, 1, IF Len(s) < 8 THEN Len(s) ELSE 8)
ExecId(tm, p) == <<tm, Prefix8(p)>>

(***************************************************************************)
(* _get_execution_order.  remaining = {s.id: s for s in stages} keeps one  *)
(* entry per id (position of the first occurrence, value of the last);     *)
(* the loop repeatedly takes the first remaining entry whose dependencies  *)
(* are all completed; no such entry means a circular dependency            *)
(* (ValueError), modelled as the order <<"!">>.                            *)
(***************************************************************************)
OrderError == <<"!">>

RECURSIVE StageDict(_, _)
StageDict(stages, acc) ==
    IF stages = <<>> THEN acc
    ELSE LET s == Head(stages)
             hit == {i \in 1..Len(acc) : acc[i].id = s.id}
         IN IF hit = {} THEN StageDict(Tail(stages), Append(acc, s))
            ELSE StageDict(Tail(stages),
                           [i \in 1..Len(acc) |-> IF i \in hit THEN s ELSE acc[i]])

RECURSIVE OrderLoop(_, _, _)
OrderLoop(remaining, completed, order) ==
    IF remaining = <<>> THEN order
    ELSE LET ready == {i \in 1..Len(remaining) :
                          Range(remaining[i].dependencies) \subseteq completed}
         IN IF ready = {} THEN OrderError
            ELSE LET i == CHOOSE k \in ready : \A j \in ready : k <= j
                     rest == [k \in 1..(Len(remaining) - 1) |->
                                 IF k < i THEN remaining[k] ELSE remaining[k + 1]]
                 IN OrderLoop(rest, completed \cup {remaining[i].id},
                              Append(order, remaining[i].id))

GetExecutionOrder(stages) == OrderLoop(StageDict(stages, <<>>), {}, <<>>)

(***************************************************************************)
(* PipelineEngine (src/backend/core/pipeline_engine.py).  A dict built     *)
(* from the stage list is the sequence StageDict of its entries.           *)
(***************************************************************************)
\* stage_ids = [stage.id for stage in pipeline.stages]
StageIdList(stages) == [i \in 1..Len(stages) |-> stages[i].id]

\* graph.get(node, [])
Neighbors(graph, node) ==
    LET hit == {i \in 1..Len(graph) : graph[i].id = node}
    IN IF hit = {} THEN <<>> ELSE graph[CHOOSE i \in hit : TRUE].dependencies

\* dfs(node) of _has_circular_dependencies, with the loop over the
\* neighbours; the result carries the visited set, rec_stack is the
\* argument stack (the caller's value is the one after rec_stack.remove).
RECURSIVE DfsEach(_, _, _, _)
DfsEach(graph, nbrs, visited, rec_stack) ==
    IF nbrs = <<>> THEN [cycle |-> FALSE, visited |-> visited]
    ELSE LET n == Head(nbrs)
         IN IF n \notin visited
            THEN LET r == DfsEach(graph, Neighbors(graph, n),
                                  visited \cup {n}, rec_stack \cup {n})
                 IN IF r.cycle THEN r
                    ELSE DfsEach(graph, Tail(nbrs), r.visited, rec_stack)
            ELSE IF n \in rec_stack
                 THEN [cycle |-> TRUE, visited |-> visited]
                 ELSE DfsEach(graph, Tail(nbrs), visited, rec_stack)

\* for stage_id in graph: if stage_id not in visited: if dfs(stage_id) ...
RECURSIVE DfsRoots(_, _, _)
DfsRoots(graph, i, visited) ==
    IF i > Len(graph) THEN FALSE
    ELSE IF graph[i].id \in visited THEN DfsRoots(graph, i + 1, visited)
    ELSE LET r == DfsEach(graph, graph[i].dependencies,
                          visited \cup {graph[i].id}, {graph[i].id})
         IN r.cycle \/ DfsRoots(graph, i + 1, r.visited)

has_circular_dependencies(stages) == DfsRoots(StageDict(stages, <<>>), 1, {})

\* The errors of the dependency loop of validate_pipeline, stage by stage.
RECURSIVE InvalidDependencies(_, _, _)
InvalidDependencies(stages, i, stage_ids) ==
    IF i > Len(stages) THEN <<>>
    ELSE LET bad == SelectSeq(stages[i].dependencies,
                              LAMBDA dep_id : dep_id \notin stage_ids)
         IN [k \in 1..Len(bad) |-> <<"invalid dependency", stages[i].id, bad[k]>>]
                \o InvalidDependencies(stages, i + 1, stage_ids)

\* validate_pipeline: the list of errors; is_valid is errors = <<>>
validate_pipeline(stages) ==
    LET stage_ids == StageIdList(stages)
    IN (IF stages = <<>> THEN << <<"no stage">> >> ELSE <<>>)
       \o (IF Len(stage_ids) # Cardinality(Range(stage_ids))
           THEN << <<"duplicate stage ids">> >> ELSE <<>>)
       \o InvalidDependencies(stages, 1, Range(stage_ids))
       \o (IF has_circular_dependencies(stages)
           THEN << <<"circular dependencies">> >> ELSE <<>>)

\* in_degree after the counting loop: one per dependency entry
RECURSIVE CountInDegree(_, _, _)
CountInDegree(stages, i, in_degree) ==
    IF i > Len(stages) THEN in_degree
    ELSE CountInDegree(stages, i + 1,
            [in_degree EXCEPT ![stages[i].id] = @ + Len(stages[i].dependencies)])

\* for stage in pipeline.stages: if current in stage.dependencies: ...
RECURSIVE ReduceInDegree(_, _, _, _, _)
ReduceInDegree(stages, i, current, in_degree, queue) ==
    IF i > Len(stages) THEN [in_degree |-> in_degree, queue |-> queue]
    ELSE IF current \in Range(stages[i].dependencies)
    THEN LET d == [in_degree EXCEPT ![stages[i].id] = @ - 1]
         IN ReduceInDegree(stages, i + 1, current, d,
                           IF d[stages[i].id] = 0
                           THEN Append(queue, stages[i].id) ELSE queue)
    ELSE ReduceInDegree(stages, i + 1, current, in_degree, queue)

\* while queue: current = queue.pop(0); result.append(current); ...
RECURSIVE KahnLoop(_, _, _, _)
KahnLoop(stages, in_degree, queue, result) ==
    IF queue = <<>> THEN result
    ELSE LET r == ReduceInDegree(stages, 1, Head(queue), in_degree, Tail(queue))
         IN KahnLoop(stages, r.in_degree, r.queue, Append(result, Head(queue)))

\* PipelineEngine.get_execution_order
get_execution_order(stages) ==
    LET keys == StageIdList(StageDict(stages, <<>>))
        in_degree == CountInDegree(stages, 1, [id \in Range(keys) |-> 0])
        queue == SelectSeq(keys, LAMBDA stage_id : in_degree[stage_id] = 0)
    IN KahnLoop(stages, in_degree, queue, <<>>)

\* The pipeline definitions given to the planner: up to MaxStages stages,
\* the i-th named by one of the first i identifiers, each with up to
\* MaxDeps dependency entries that name a stage identifier or MissingId.
IdSeq == <<"A", "B", "C", "D", "E">>
MissingId == "Z"
DepLists ==
    UNION {[1..n -> {IdSeq[j] : j \in 1..MaxStages} \cup {MissingId}] : n \in 0..MaxDeps}
StageNamings(n) ==
    {f \in [1..n -> {IdSeq[j] : j \in 1..n}] :
        \A i \in 1..n : \E j \in 1..i : f[i] = IdSeq[j]}
StageList(ids, deps) ==
    [i \in 1..Len(ids) |-> StageConfig(ids[i], "transform", deps[i], 0, TRUE)]

(***************************************************************************)
(* AISafetyEngine.  Scores are integers in thousandths; the weighted sum   *)
(* is in units of 1e-5 (weights in hundredths).                            *)
(***************************************************************************)
Min(a, b) == IF a < b THEN a ELSE b
RoundDiv(a, b) == (2 * a + b) \div (2 * b)

PipelineStats(total, failed, avg, n) ==
    [total_executions |-> total, failed_executions |-> failed,
     avg_duration |-> avg, last_7_days_failures |-> 0,
     last_7_days_executions |-> 0, consecutive_failures |-> 0,
     days_since_success |-> None, stage_count |-> n]

\* Settings() with its defaults, and a deployment that sets
\* AI_BLOCK_HIGH_RISK and lowers the band edges through the environment.
DefaultSettings ==
    [AI_BLOCK_HIGH_RISK |-> FALSE,
     AI_RISK_THRESHOLD_LOW |-> AI_RISK_THRESHOLD_LOW,
     AI_RISK_THRESHOLD_MEDIUM |-> AI_RISK_THRESHOLD_MEDIUM,
     AI_RISK_THRESHOLD_HIGH |-> AI_RISK_THRESHOLD_HIGH,
     AI_ANOMALY_ERROR_THRESHOLD |-> AI_ANOMALY_ERROR_THRESHOLD]
\* Lowered band edges, a burst of two errors, and blocking switched on.
StrictSettings ==
    [AI_BLOCK_HIGH_RISK |-> TRUE,
     AI_RISK_THRESHOLD_LOW |-> 100,
     AI_RISK_THRESHOLD_MEDIUM |-> AI_RISK_THRESHOLD_LOW,
     AI_RISK_THRESHOLD_HIGH |-> AI_RISK_THRESHOLD_MEDIUM,
     AI_ANOMALY_ERROR_THRESHOLD |-> 2]
\* The lowered band edges with AI_BLOCK_HIGH_RISK left off.
WatchfulSettings == [StrictSettings EXCEPT !.AI_BLOCK_HIGH_RISK = FALSE]
\* <<settings, Redis reachable at initialize()>>
Deployments == {<<DefaultSettings, TRUE>>, <<DefaultSettings, FALSE>>,
                <<StrictSettings, TRUE>>}

\* self.risk_thresholds of AISafetyEngine.__init__
RiskThresholds(cfg) ==
    [low |-> cfg.AI_RISK_THRESHOLD_LOW, medium |-> cfg.AI_RISK_THRESHOLD_MEDIUM,
     high |-> cfg.AI_RISK_THRESHOLD_HIGH, critical |-> RISK_THRESHOLD_CRITICAL]

GetRiskLevel(score, thresholds) ==
    IF score >= thresholds.critical THEN "critical"
    ELSE IF score >= thresholds.high THEN "high"
    ELSE IF score >= thresholds.medium THEN "medium"
    ELSE "low"

RiskScore(stats) ==
    LET failure == IF stats.total_executions = 0 THEN 0
                   ELSE Min(RoundDiv(1500 * stats.failed_executions,
                                     stats.total_executions), 1000)
        recent == IF stats.last_7_days_executions > 0
                  THEN Min(RoundDiv(2000 * stats.last_7_days_failures,
                                    stats.last_7_days_executions), 1000)
                  ELSE 0
        consecutive == Min(RoundDiv(1000 * stats.consecutive_failures, 3), 1000)
        duration == IF stats.avg_duration > 0
                    THEN IF 10 * stats.avg_duration > 8 * EXECUTOR_DEFAULT_TIMEOUT
                         THEN 800
                         ELSE IF stats.avg_duration > 120
                              THEN Min(RoundDiv(1000 * stats.avg_duration, 300), 600)
                              ELSE 0
                    ELSE 0
        complexity == Min(RoundDiv(1000 * stats.stage_count, 15), 1000)
        since == IF stats.days_since_success # None
                 THEN Min(RoundDiv(1000 * Val(stats.days_since_success), 7), 1000)
                 ELSE 0
        total == 30 * failure + 25 * recent + 15 * consecutive
                 + 10 * duration + 10 * complexity + 10 * since
    IN RoundDiv(Min(total, 100000), 100)

\* assess_risk with should_block set for every high or critical level
AssessRisk_BlockUnasked(stats, cfg) ==
    LET score == RiskScore(stats)
        level == GetRiskLevel(score, RiskThresholds(cfg))
    IN [risk_score |-> score, risk_level |-> level,
        should_block |-> level \in {"high", "critical"}]

AssessRisk(stats, cfg) ==
    LET score == RiskScore(stats)
        level == GetRiskLevel(score, RiskThresholds(cfg))
    IN [risk_score |-> score, risk_level |-> level,
        should_block |-> cfg.AI_BLOCK_HIGH_RISK /\ level \in {"high", "critical"}]

\* select_safe_action: error is an optional string, anomaly an optional
\* record with a type field.
SelectSafeAction(error, anomaly, risk_level, is_stage_critical, retry_count, max_retries) ==
    IF ~Truthy(error) /\ anomaly = None THEN "continue"
    ELSE IF retry_count < max_retries /\ Truthy(error) /\ anomaly = None
         THEN "retry_stage"
    ELSE IF ~is_stage_critical THEN "skip_stage"
    ELSE IF risk_level \in {"high", "critical"} \/ retry_count >= max_retries
         THEN IF anomaly # None /\ Val(anomaly).type = "error_burst"
              THEN "rollback"
              ELSE "pause_pipeline"
    ELSE "pause_pipeline"

(***************************************************************************)
(* State                                                                   *)
(***************************************************************************)
VARIABLES
    now,                \* wall clock, seconds
    failures,           \* handler invocations that have raised or timed out
    controls,           \* stop and pause requests so far, and how many clients make
    reply,              \* the last response of a stop, pause or resume route
    settings,           \* config.settings
    available,          \* RedisStateManager._available
    shutdown_event,     \* PipelineExecutor._shutdown_event
    sd_sleeping,        \* shutdown is in its asyncio.sleep(5)
    sd_list,            \* executions shutdown still has to mark failed
    active_executions,  \* PipelineExecutor._active_executions: id -> task
    heartbeat_tasks,    \* PipelineExecutor._heartbeat_tasks (its key set)
    local_locks,        \* RedisStateManager._local_locks (its key set)
    pipeline_lock,      \* Redis keys lock:pipeline:{id}
    redis_exec_state,   \* Redis keys state:execution:{id}
    retry_counter,      \* Redis keys retry:{exec}:{stage}
    executions,         \* table executions
    stage_executions,   \* table stage_executions
    tasks,              \* the execute_pipeline coroutines
    plan,               \* a pipeline definition and what the planner made of it
    pipelines_db,       \* backend.api.routes.pipelines.pipelines_db
    executions_db,      \* backend.api.routes.executions.executions_db
    background_tasks,   \* BackgroundTasks that have not run yet
    uuids,              \* number of uuid4() draws of the in-memory service
    heartbeat,          \* Redis keys heartbeat:{id}: the time of the last one
    stale,              \* what cleanup_stale_executions returned last
    call,               \* a call of a function of AISafetyEngine and its result
    execution_locks,    \* table execution_locks
    ai_insights,        \* table ai_insights, in insertion order
    pipeline_rows,      \* table pipelines
    pipeline_cache,     \* Redis keys cache:pipeline:{id}
    route_calls,        \* the coroutines of the pipeline routes
    lock_ctx            \* callers inside an acquire_execution_lock context

\* the variables the coroutines of the engine do not write
proto_vars == <<pipelines_db, executions_db, background_tasks, uuids>>
watch_vars == <<heartbeat, stale>>
lock_vars == <<execution_locks>>
route_vars == <<pipeline_rows, pipeline_cache, route_calls, lock_ctx>>
quiet_vars == <<plan, call, reply, proto_vars, watch_vars, lock_vars, route_vars>>
side_vars == <<lock_vars, ai_insights, route_vars>>
aux_vars == <<quiet_vars, ai_insights>>

vars == <<aux_vars, now, controls, failures, settings, available, shutdown_event, sd_sleeping, sd_list,
          active_executions, heartbeat_tasks, local_locks, pipeline_lock,
          redis_exec_state, retry_counter, executions, stage_executions, tasks>>

Tasks == 1..MaxRequests

TerminalStatuses == {"completed", "failed", "cancelled", "rolled_back"}

PipelineLockKey(p) == <<"lock:pipeline", p>>
ExecutionLockKey(e) == <<"lock:execution", e>>

\* Statistics ExecutionCRUD.get_stats can return for the last 30 days: the
\* table holds rows older than this run.
StatsInputs(n) == {PipelineStats(0, 0, 0, n), PipelineStats(4, 4, 250, n)}

\* Outcome of one handler invocation: a result, an exception with a
\* message, an exception whose str() is empty.
HandlerOutcomes == {None, Some(<<"boom">>), Some(<<>>)}

\* A coroutine slot.  pc is the suspension point; slept, invocations,
\* admitted, inflight_seen and active_seen are history: the sleep taken
\* before the current attempt (None: no sleep), handler calls per stage,
\* whether this coroutine created the rows, and what the request found.
IdleTask ==
    [pc |-> "idle", pipeline_id |-> <<>>, execution_id |-> <<>>,
     http |-> None, result |-> None, took_lock |-> FALSE,
     completed_stages |-> 0, is_cancelled |-> FALSE, is_paused |-> FALSE,
     current_stage |-> None,
     order |-> <<>>, idx |-> 0, attempt |-> 0, slept |-> None,
     term |-> "", term_error |-> None, in_loop |-> FALSE,
     invocations |-> [s \in StageIds |-> 0],
     admitted |-> FALSE, inflight_seen |-> {}, active_seen |-> {},
     high_risk |-> None, skipped |-> {}]

\* A row of table pipelines with its stages: definition stands for the
\* columns update_pipeline writes; rev is history, the number of committed
\* writes of the row.
PipelineRow(definition, is_active, created_at) ==
    [definition |-> definition, is_active |-> is_active,
     created_at |-> created_at, rev |-> 0]

\* A client of the pipeline routes.  floor is history: the row the request
\* found in the table when it arrived, if no write of that pipeline was
\* between its commit and its return then.
Clients == 1..MaxClients
IdleCall ==
    [pc |-> "idle", fn |-> "", pipeline_id |-> <<>>, cached |-> None,
     floor |-> None, status |-> None, data |-> None]

\* The state after construction and initialize(); slots are the coroutine
\* slots that start requests may use.
NoCall == [fn |-> "", args |-> <<>>, result |-> None]
NoPlan == [stages |-> <<>>, errors |-> None, order |-> None, engine_order |-> None]

EngineStart(slots, deployments, requests) ==
    /\ now = 0
    /\ controls = [stop |-> 0, pause |-> 0, limit |-> requests]
    /\ reply = None
    /\ heartbeat = <<>>
    /\ stale = None
    /\ execution_locks = [rows |-> {}, seq |-> 0]
    /\ ai_insights = <<>>
    /\ pipeline_rows = [p \in Pipelines |-> PipelineRow(1, TRUE, 0)]
    /\ pipeline_cache = <<>>
    /\ route_calls = [c \in Clients |-> IdleCall]
    /\ lock_ctx = {}
    /\ failures = 0
    /\ \E d \in deployments : settings = d[1] /\ available = d[2]
    /\ shutdown_event = FALSE
    /\ sd_sleeping = FALSE
    /\ sd_list = {}
    /\ active_executions = <<>>
    /\ heartbeat_tasks = {}
    /\ local_locks = {}
    /\ pipeline_lock = [p \in AllPipelines |-> None]
    /\ redis_exec_state = <<>>
    /\ retry_counter = <<>>
    /\ executions = <<>>
    /\ stage_executions = <<>>
    /\ tasks = [t \in Tasks |-> IF t \in slots THEN IdleTask
                                 ELSE [IdleTask EXCEPT !.pc = "off"]]

\* The in-memory service after import: both stores are empty.
ProtoStart ==
    /\ pipelines_db = <<>>
    /\ executions_db = <<>>
    /\ background_tasks = {}
    /\ uuids = 0

Start(slots) ==
    plan = NoPlan /\ call = NoCall /\ ProtoStart /\ EngineStart(slots, Deployments, MaxControl)

Init == Start(Tasks)

(***************************************************************************)
(* Durable store                                                           *)
(***************************************************************************)
\* ExecutionCRUD.create
NewExecution(p, total) ==
    [pipeline_id |-> p, status |-> "pending", total_stages |-> total,
     completed_stages |-> 0, error |-> None,
     started_at |-> now, completed_at |-> None, duration |-> None]

\* update_status without the assignment of completed_stages
UpdateStatus_NoCount(ex, id, status, error, completed_stages) ==
    IF id \notin DOMAIN ex THEN ex
    ELSE [ex EXCEPT ![id] =
            [@ EXCEPT !.status = status,
                      !.error = IF Truthy(error) THEN error ELSE @,
                      !.completed_at =
                          IF status \in TerminalStatuses THEN Some(now) ELSE @,
                      !.duration =
                          IF status \in TerminalStatuses
                          THEN Some(now - ex[id].started_at) ELSE @]]

\* ExecutionCRUD.update_status
UpdateStatus(ex, id, status, error, completed_stages) ==
    IF id \notin DOMAIN ex THEN ex
    ELSE [ex EXCEPT ![id] =
            [@ EXCEPT !.status = status,
                      !.error = IF Truthy(error) THEN error ELSE @,
                      !.completed_stages =
                          IF completed_stages # None THEN Val(completed_stages) ELSE @,
                      !.completed_at =
                          IF status \in TerminalStatuses THEN Some(now) ELSE @,
                      !.duration =
                          IF status \in TerminalStatuses
                          THEN Some(now - ex[id].started_at) ELSE @]]

\* update without the assignment of retry_count
UpdateStage_KeepRetryCount(se, id, sid, status, retry_count) ==
    IF <<id, sid>> \notin DOMAIN se THEN se
    ELSE [se EXCEPT ![<<id, sid>>] = [@ EXCEPT !.status = status]]

\* StageExecutionCRUD.update(status=..., retry_count=...)
UpdateStage(se, id, sid, status, retry_count) ==
    IF <<id, sid>> \notin DOMAIN se THEN se
    ELSE [se EXCEPT ![<<id, sid>>] =
            [@ EXCEPT !.status = status,
                      !.retry_count =
                          IF retry_count # None THEN Val(retry_count) ELSE @]]

(***************************************************************************)
(* Coordination port                                                       *)
(***************************************************************************)
\* RedisStateManager.set_execution_state
SetExecutionState(rs, id, state) ==
    IF available THEN (id :> state) @@ rs ELSE rs

\* RedisStateManager.increment_retry_counter
IncrementRetryCounter(rc, id, sid) ==
    IF available
    THEN (<<id, sid>> :> (IF <<id, sid>> \in DOMAIN rc THEN rc[<<id, sid>>] + 1 ELSE 1)) @@ rc
    ELSE rc

\* RedisStateManager.reset_retry_counter
ResetRetryCounter(rc, id, sid) ==
    IF available
    THEN [k \in DOMAIN rc \ {<<id, sid>>} |-> rc[k]]
    ELSE rc

\* RedisStateManager.release_pipeline_lock
ReleasePipelineLock(pl, p) ==
    IF available THEN [pl EXCEPT ![p] = None] ELSE pl

(***************************************************************************)
(* PipelineExecutor.execute_pipeline                                       *)
(***************************************************************************)
Stage(t, sid) == StageById(PipelineStages(tasks[t].pipeline_id), sid)

\* The return value of execute_pipeline / _execute_stages.
Result(status, tk) == Some([status |-> status, completed_stages |-> tk.completed_stages])

\* A coroutine that has returned: its frame and its ExecutionContext are
\* gone; what is kept is the request, the return value and the history
\* fields (invocations, admitted, inflight_seen, active_seen, high_risk).
Returned(tk, result) ==
    [IdleTask EXCEPT !.pc = "done", !.pipeline_id = tk.pipeline_id,
                     !.execution_id = tk.execution_id, !.http = tk.http,
                     !.took_lock = tk.took_lock, !.result = result,
                     !.invocations = tk.invocations, !.admitted = tk.admitted,
                     !.inflight_seen = tk.inflight_seen,
                     !.active_seen = tk.active_seen,
                     !.high_risk = tk.high_risk, !.skipped = tk.skipped]

\* Time is read when a start request arrives (the execution id, the
\* expiry of the pipeline lock) and when an execution row is written.  The
\* clock advances with the requests and with the sleeps of the engine:
\* elapsed is the time since the previous event, nothing, a second, or a
\* whole EXECUTOR_DEFAULT_TIMEOUT (the ttl of the pipeline lock, which only
\* a reachable Redis keeps).  The first request is the origin of time.
Elapsed == {0, 1, EXECUTOR_DEFAULT_TIMEOUT}

\* A Redis key set with ex=ttl exists until the ttl has elapsed.
LockHeldAt(tm, p) == pipeline_lock[p] # None /\ tm < Val(pipeline_lock[p]).expires

\* RedisStateManager.prevent_duplicate_run: TRUE if a run is in progress
PreventDuplicateRun(tm, p) ==
    IF available THEN LockHeldAt(tm, p) ELSE PipelineLockKey(p) \in local_locks

\* History: the requests for pipeline p whose coroutine has not returned,
\* and those registered in _active_executions.
InFlight(p) == {u \in Tasks : tasks[u].pc \notin {"idle", "off", "done"}
                                /\ tasks[u].pipeline_id = p}
ActiveOn(p) == {u \in Tasks : tasks[u].execution_id \in DOMAIN active_executions
                                /\ active_executions[tasks[u].execution_id] = u
                                /\ tasks[u].pipeline_id = p}

\* create_execution (route) schedules execute_pipeline_background and
\* answers 202; the coroutine computes the execution id and awaits
\* prevent_duplicate_run.
StartRequest(t, p, elapsed) ==
    /\ tasks[t].pc = "idle"
    /\ \A u \in Tasks : u < t => tasks[u].pc # "idle"
    /\ ~shutdown_event
    /\ (\A u \in Tasks : tasks[u].http = None) => elapsed = 0
    /\ elapsed = EXECUTOR_DEFAULT_TIMEOUT => available
    /\ now' = now + elapsed
    /\ LET dup == PreventDuplicateRun(now', p)
           tk == [tasks[t] EXCEPT !.pipeline_id = p,
                                  !.execution_id = ExecId(now', p),
                                  !.http = Some(202),
                                  !.inflight_seen = InFlight(p),
                                  !.active_seen = ActiveOn(p)]
       IN /\ pipeline_lock' =
                IF available /\ ~dup
                THEN [pipeline_lock EXCEPT ![p] =
                        Some([expires |-> now' + EXECUTOR_DEFAULT_TIMEOUT, owner |-> t])]
                ELSE pipeline_lock
          /\ tasks' = [tasks EXCEPT ![t] =
                IF dup
                THEN Returned(tk, Some([status |-> "rejected", completed_stages |-> 0]))
                ELSE [tk EXCEPT !.pc = "admit", !.took_lock = available]]
    /\ UNCHANGED <<aux_vars, controls, failures, settings, available, shutdown_event, sd_sleeping, sd_list,
                   active_executions, heartbeat_tasks, local_locks,
                   redis_exec_state, retry_counter, executions, stage_executions>>

\* AIInsightCRUD.create: the row of an insight; action_taken is set by
\* mark_resolved only.
Insight(execution_id, insight_type, severity) ==
    [execution_id |-> execution_id, insight_type |-> insight_type,
     severity |-> severity, action_taken |-> None]

\* The insights execute_pipeline stores at admission: those of
\* generate_insights with severity high or critical.  The PipelineStats it
\* passes carry the stage count only, so the risk insight is the only one
\* that can have such a severity.
StoredInsights(id, risk) ==
    IF risk.risk_level \in {"high", "critical"}
    THEN <<Insight(id, "prediction", risk.risk_level)>>
    ELSE <<>>

\* Risk assessment, creation of the execution and stage rows, and
\* acquire_execution_lock.  A create that hits an existing primary key
\* raises; the outer except calls _mark_execution_failed.
Admit(t, stats) ==
    /\ tasks[t].pc = "admit"
    /\ LET risk == AssessRisk(stats, settings)
           tk == [tasks[t] EXCEPT
                     !.high_risk = Some(risk.risk_level \in {"high", "critical"})]
           id == tk.execution_id
           stages == PipelineStages(tk.pipeline_id)
           key == ExecutionLockKey(id)
       IN IF risk.should_block
          THEN /\ tasks' = [tasks EXCEPT ![t] =
                     Returned(tk, Result("blocked", tk))]
               /\ UNCHANGED <<executions, stage_executions, local_locks, redis_exec_state,
                              ai_insights>>
          ELSE IF id \in DOMAIN executions
          THEN /\ redis_exec_state' = SetExecutionState(redis_exec_state, id, "failed")
               /\ tasks' = [tasks EXCEPT ![t] =
                     [tk EXCEPT !.pc = "mark_db", !.term = "failed",
                                !.term_error = Some(<<"IntegrityError">>)]]
               /\ UNCHANGED <<executions, stage_executions, local_locks, ai_insights>>
          ELSE /\ executions' = (id :> NewExecution(tk.pipeline_id, Len(stages))) @@ executions
               /\ ai_insights' = ai_insights \o StoredInsights(id, risk)
               /\ stage_executions' =
                     [k \in {<<id, stages[i].id>> : i \in 1..Len(stages)} |->
                         [status |-> "pending", retry_count |-> 0]] @@ stage_executions
               /\ IF ~available /\ key \in local_locks
                  THEN \* LockError; the finally of acquire_execution_lock
                       \* deletes the key
                       /\ local_locks' = local_locks \ {key}
                       /\ redis_exec_state' = redis_exec_state
                       /\ tasks' = [tasks EXCEPT ![t] =
                             [tk EXCEPT !.pc = "mark_db", !.term = "failed",
                                        !.admitted = TRUE,
                                        !.term_error = Some(<<"LockError">>)]]
                  ELSE /\ local_locks' = IF available THEN local_locks
                                         ELSE local_locks \cup {key}
                       /\ redis_exec_state' = redis_exec_state
                       /\ tasks' = [tasks EXCEPT ![t] =
                             [tk EXCEPT !.pc = "activate", !.admitted = TRUE]]
    /\ UNCHANGED <<quiet_vars, now, controls, failures, settings, available, shutdown_event, sd_sleeping, sd_list,
                   active_executions, heartbeat_tasks, pipeline_lock, retry_counter>>

\* Registration in _active_executions and _heartbeat_tasks, and
\* set_execution_state(RUNNING).
Activate(t) ==
    /\ tasks[t].pc = "activate"
    /\ LET id == tasks[t].execution_id
       IN /\ active_executions' = (id :> t) @@ active_executions
          /\ heartbeat_tasks' = heartbeat_tasks \cup {id}
          /\ redis_exec_state' = SetExecutionState(redis_exec_state, id, "running")
    /\ tasks' = [tasks EXCEPT ![t] = [@ EXCEPT !.pc = "begin", !.in_loop = TRUE]]
    /\ UNCHANGED <<aux_vars, now, controls, failures, settings, available, shutdown_event, sd_sleeping, sd_list,
                   local_locks, pipeline_lock, retry_counter, executions,
                   stage_executions>>

\* The finally block of execute_pipeline, followed by the exit of
\* acquire_execution_lock.
Cleanup(t) ==
    LET id == tasks[t].execution_id
    IN /\ heartbeat_tasks' = heartbeat_tasks \ {id}
       /\ active_executions' = [k \in DOMAIN active_executions \ {id} |-> active_executions[k]]
       /\ pipeline_lock' = ReleasePipelineLock(pipeline_lock, tasks[t].pipeline_id)
       /\ local_locks' = (local_locks \ {PipelineLockKey(tasks[t].pipeline_id)})
                            \ (IF available THEN {} ELSE {ExecutionLockKey(id)})

RECURSIVE Pow(_, _)
Pow(b, e) == IF e = 0 THEN 1 ELSE b * Pow(b, e - 1)

\* stage.retry_delay * (settings.EXECUTOR_RETRY_BACKOFF ** attempt)
BackoffDelay(stage, attempt) ==
    stage.retry_delay * Pow(EXECUTOR_RETRY_BACKOFF, attempt)

\* One attempt of _execute_stage_with_retry up to the handler call: the
\* backoff sleep if attempt > 0, then the stage row gets status running
\* and retry_count = attempt, then the handler is invoked under wait_for.
\* se is the table on entry.
StartAttempt(t, tk, se, sid, attempt) ==
    /\ stage_executions' = UpdateStage(se, tk.execution_id, sid, "running", Some(attempt))
    /\ tasks' = [tasks EXCEPT ![t] =
          [tk EXCEPT !.pc = "handler", !.attempt = attempt,
                     !.slept = IF attempt > 0
                               THEN Some(BackoffDelay(
                                       StageById(PipelineStages(tk.pipeline_id), sid),
                                       attempt))
                               ELSE None,
                     !.current_stage = Some(sid),
                     !.invocations = [@ EXCEPT ![sid] = @ + 1]]]

\* The top of the stage loop of _execute_stages for the task record tk and
\* the stage table se and the execution states rs, up to its next suspension.
LoopTop(t, tk, se, rs) ==
    LET id == tk.execution_id
    IN IF tk.idx > Len(tk.order)
       THEN \* _mark_execution_completed
            /\ redis_exec_state' = SetExecutionState(rs, id, "completed")
            /\ tasks' = [tasks EXCEPT ![t] = [tk EXCEPT !.pc = "mark_db", !.term = "completed"]]
            /\ stage_executions' = se
       ELSE IF shutdown_event \/ tk.is_cancelled
       THEN \* _handle_cancellation
            /\ redis_exec_state' = SetExecutionState(rs, id, "cancelled")
            /\ tasks' = [tasks EXCEPT ![t] = [tk EXCEPT !.pc = "mark_db", !.term = "cancelled"]]
            /\ stage_executions' = se
       ELSE IF tk.is_paused
       THEN /\ redis_exec_state' = rs
            /\ tasks' = [tasks EXCEPT ![t] = [tk EXCEPT !.pc = "paused"]]
            /\ stage_executions' = se
       ELSE /\ redis_exec_state' = rs
            /\ StartAttempt(t, tk, se, tk.order[tk.idx], 0)

\* _get_execution_order(pipeline), computed once per pipeline
ExecutionOrder == [p \in AllPipelines |-> GetExecutionOrder(PipelineStages(p))]

\* Start of _execute_stages: the order, status RUNNING, first loop test.
BeginStages(t) ==
    /\ tasks[t].pc = "begin"
    /\ LET tk == tasks[t]
           id == tk.execution_id
           order == ExecutionOrder[tk.pipeline_id]
       IN IF order = OrderError
          THEN \* ValueError: the finally block runs, then the outer except
               /\ Cleanup(t)
               /\ redis_exec_state' = SetExecutionState(redis_exec_state, id, "failed")
               /\ tasks' = [tasks EXCEPT ![t] =
                     [tk EXCEPT !.pc = "mark_db", !.term = "failed", !.in_loop = FALSE,
                                !.term_error = Some(<<"Circular dependency">>)]]
               /\ UNCHANGED <<executions, stage_executions>>
          ELSE /\ executions' = UpdateStatus(executions, id, "running", None, None)
               /\ LoopTop(t, [tk EXCEPT !.order = order, !.idx = 1], stage_executions,
                          redis_exec_state)
               /\ UNCHANGED <<active_executions, heartbeat_tasks, pipeline_lock, local_locks>>
    /\ UNCHANGED <<aux_vars, now, controls, failures, settings, available, shutdown_event, sd_sleeping, sd_list,
                   retry_counter>>

\* while context.is_paused: sleep(1); if shutdown: break
PausedPoll(t) ==
    /\ tasks[t].pc = "paused"
    /\ shutdown_event \/ ~tasks[t].is_paused
    /\ now' = now + PAUSE_POLL
    /\ StartAttempt(t, tasks[t], stage_executions, tasks[t].order[tasks[t].idx], 0)
    /\ UNCHANGED <<aux_vars, controls, failures, settings, available, shutdown_event, sd_sleeping, sd_list,
                   active_executions, heartbeat_tasks, local_locks, pipeline_lock,
                   redis_exec_state, retry_counter, executions>>

(***************************************************************************)
(* PipelineExecutor._execute_stage_with_retry                              *)
(***************************************************************************)
\* the test with > in place of >=
RetriesExhausted_OffByOne(attempt, max_retries) == attempt > max_retries

\* if attempt >= stage.max_retries: the stage is failed, return False
RetriesExhausted(attempt, max_retries) == attempt >= max_retries

\* The handler returns (outcome = None) or raises / times out (outcome =
\* Some(message)); the rest of the attempt and what _execute_stages does
\* with the outcome, up to the next suspension.
HandlerReturn(t, outcome) ==
    /\ tasks[t].pc = "handler"
    /\ outcome # None => failures < MaxFailures
    /\ failures' = IF outcome = None THEN failures ELSE failures + 1
    /\ LET tk == tasks[t]
           id == tk.execution_id
           sid == Val(tk.current_stage)
           stage == Stage(t, sid)
           counted == [tk EXCEPT !.completed_stages = @ + 1, !.idx = @ + 1]
       IN IF outcome = None
          THEN \* success: result stored, row completed, counter reset
               /\ now' = now
               /\ retry_counter' = ResetRetryCounter(retry_counter, id, sid)
               /\ LoopTop(t, counted,
                          UpdateStage(stage_executions, id, sid, "completed", None),
                          SetExecutionState(redis_exec_state, id, "running"))
          ELSE IF ~RetriesExhausted(tk.attempt, stage.max_retries)
          THEN \* next attempt: increment_retry_counter, backoff sleep
               /\ now' = now + BackoffDelay(stage, tk.attempt + 1)
               /\ retry_counter' = IncrementRetryCounter(retry_counter, id, sid)
               /\ redis_exec_state' = redis_exec_state
               /\ StartAttempt(t, tk, stage_executions, sid, tk.attempt + 1)
          ELSE \* retries exhausted: row failed, return False.
               \* context.results[stage_id] = {"error": error_msg} is read
               \* back by _execute_stages and nowhere else.
               LET failed == UpdateStage(stage_executions, id, sid, "failed", None)
                   action == SelectSafeAction(outcome, None, "medium",
                                              stage.is_critical,
                                              EXECUTOR_MAX_RETRIES, EXECUTOR_MAX_RETRIES)
               IN /\ now' = now
                  /\ retry_counter' = retry_counter
                  /\ IF action = "skip_stage"
                     THEN \* a warning is logged, then continue
                          LoopTop(t, [tk EXCEPT !.idx = @ + 1, !.skipped = @ \cup {sid}],
                                  failed, redis_exec_state)
                     ELSE IF action = "rollback"
                     THEN \* _perform_rollback
                          /\ stage_executions' = failed
                          /\ redis_exec_state' = SetExecutionState(redis_exec_state, id, "rolled_back")
                          /\ tasks' = [tasks EXCEPT ![t] =
                                [tk EXCEPT !.pc = "mark_db", !.term = "rolled_back"]]
                     ELSE IF action \in {"pause_pipeline", "terminate"}
                     THEN \* _mark_execution_failed
                          /\ stage_executions' = failed
                          /\ redis_exec_state' = SetExecutionState(redis_exec_state, id, "failed")
                          /\ tasks' = [tasks EXCEPT ![t] =
                                [tk EXCEPT !.pc = "mark_db", !.term = "failed",
                                           !.term_error = Some(<<"Stage", sid, "failed">>)]]
                     ELSE \* no branch taken: falls through to the increment
                          LoopTop(t, counted, failed,
                                  SetExecutionState(redis_exec_state, id, "running"))
    /\ UNCHANGED <<aux_vars, controls, settings, available, shutdown_event, sd_sleeping, sd_list,
                   active_executions, heartbeat_tasks, local_locks, pipeline_lock,
                   executions>>

\* The database half of _mark_execution_completed / _mark_execution_failed
\* / _handle_cancellation / _perform_rollback, the return, and (inside the
\* stage loop) the finally block.
FinalizeDb(t) ==
    /\ tasks[t].pc = "mark_db"
    /\ LET tk == tasks[t]
       IN /\ executions' = UpdateStatus(executions, tk.execution_id, tk.term,
                                        tk.term_error,
                                        IF tk.term = "completed"
                                        THEN Some(tk.completed_stages) ELSE None)
          /\ ai_insights' =
                IF tk.term = "rolled_back"
                THEN Append(ai_insights, Insight(tk.execution_id, "anomaly", "high"))
                ELSE ai_insights
          /\ tasks' = [tasks EXCEPT ![t] = Returned(tk, Result(tk.term, tk))]
          /\ IF tk.in_loop
             THEN Cleanup(t)
             ELSE UNCHANGED <<active_executions, heartbeat_tasks, pipeline_lock, local_locks>>
    /\ UNCHANGED <<quiet_vars, now, controls, failures, settings, available, shutdown_event, sd_sleeping, sd_list,
                   redis_exec_state, retry_counter, stage_executions>>

(***************************************************************************)
(* Control requests (api/routes/executions.py)                             *)
(***************************************************************************)
\* An execution id no execution has.
UnknownId == ExecId(0, <<>>)
RequestIds == DOMAIN executions \cup {UnknownId}

HTTP_200_OK == 200
HTTP_400_BAD_REQUEST == 400
HTTP_404_NOT_FOUND == 404
HTTP_409_CONFLICT == 409

Response(op, id, code) == Some([op |-> op, id |-> id, code |-> code])

\* stop_execution: 404 without a row, 400 unless the row is pending or
\* running; else it sets the cancel flag of an active execution, or
\* writes CANCELLED itself.
StopRequest(id) ==
    /\ controls.stop < MaxControl
    /\ controls.stop + controls.pause < controls.limit
    /\ controls' = [controls EXCEPT !.stop = @ + 1]
    /\ IF id \notin DOMAIN executions
       THEN /\ reply' = Response("stop", id, HTTP_404_NOT_FOUND)
            /\ UNCHANGED <<executions, tasks>>
       ELSE IF executions[id].status \notin {"pending", "running"}
       THEN /\ reply' = Response("stop", id, HTTP_400_BAD_REQUEST)
            /\ UNCHANGED <<executions, tasks>>
       ELSE /\ reply' = Response("stop", id, HTTP_200_OK)
            /\ IF id \in DOMAIN active_executions
               THEN /\ tasks' = [tasks EXCEPT ![active_executions[id]].is_cancelled = TRUE]
                    /\ UNCHANGED executions
               ELSE /\ executions' = UpdateStatus(executions, id, "cancelled", None, None)
                    /\ UNCHANGED tasks
    /\ UNCHANGED <<plan, call, proto_vars, watch_vars, side_vars, now, failures, settings, available, shutdown_event, sd_sleeping, sd_list,
                   active_executions, heartbeat_tasks, local_locks, pipeline_lock,
                   redis_exec_state, retry_counter, stage_executions>>

\* pause_execution: accepted for a running row; PipelineExecutor
\* .pause_execution sets the flag and the Redis state PAUSED.
PauseRequest(id) ==
    /\ controls.pause < MaxControl
    /\ controls.stop + controls.pause < controls.limit
    /\ controls' = [controls EXCEPT !.pause = @ + 1]
    /\ id \in DOMAIN executions
    /\ executions[id].status = "running"
    /\ id \in DOMAIN active_executions
    /\ ~tasks[active_executions[id]].is_paused
    /\ reply' = Response("pause", id, HTTP_200_OK)
    /\ tasks' = [tasks EXCEPT ![active_executions[id]].is_paused = TRUE]
    /\ redis_exec_state' = SetExecutionState(redis_exec_state, id, "paused")
    /\ UNCHANGED <<plan, call, proto_vars, watch_vars, side_vars, now, failures, settings, available, shutdown_event, sd_sleeping, sd_list,
                   active_executions, heartbeat_tasks, local_locks, pipeline_lock,
                   retry_counter, executions, stage_executions>>

\* resume_execution, requested for an execution whose pause was accepted:
\* 400 unless the row is paused; else PipelineExecutor.resume_execution
\* clears the flag and sets the Redis state RUNNING.
ResumeRequest(id) ==
    /\ id \in DOMAIN executions
    /\ id \in DOMAIN active_executions
    /\ tasks[active_executions[id]].is_paused
    /\ IF executions[id].status # "paused"
       THEN /\ reply' = Response("resume", id, HTTP_400_BAD_REQUEST)
            /\ UNCHANGED <<tasks, redis_exec_state>>
       ELSE /\ reply' = Response("resume", id, HTTP_200_OK)
            /\ tasks' = [tasks EXCEPT ![active_executions[id]].is_paused = FALSE]
            /\ redis_exec_state' = SetExecutionState(redis_exec_state, id, "running")
    /\ UNCHANGED <<plan, call, proto_vars, watch_vars, side_vars, now, controls, failures, settings, available, shutdown_event,
                   sd_sleeping, sd_list, active_executions, heartbeat_tasks, local_locks,
                   pipeline_lock, retry_counter, executions, stage_executions>>

(***************************************************************************)
(* PipelineExecutor.shutdown                                               *)
(***************************************************************************)
\* The event is set and the heartbeat tasks are cancelled; shutdown sleeps
\* if executions are active.
ShutdownBegin ==
    /\ Cardinality({t \in Tasks : tasks[t].http # None}) <= MaxStartsBeforeShutdown
    /\ ~shutdown_event
    /\ shutdown_event' = TRUE
    /\ sd_sleeping' = (DOMAIN active_executions # {})
    /\ UNCHANGED <<aux_vars, now, controls, failures, settings, available, sd_list,
                   active_executions, heartbeat_tasks, local_locks, pipeline_lock,
                   redis_exec_state, retry_counter, executions, stage_executions,
                   tasks>>

\* After the sleep: list(self._active_executions.keys())
ShutdownWake ==
    /\ sd_sleeping
    /\ sd_sleeping' = FALSE
    /\ now' = now + SHUTDOWN_WAIT
    /\ sd_list' = DOMAIN active_executions
    /\ UNCHANGED <<aux_vars, controls, failures, settings, available, shutdown_event,
                   active_executions, heartbeat_tasks, local_locks, pipeline_lock,
                   redis_exec_state, retry_counter, executions, stage_executions,
                   tasks>>

\* _mark_execution_failed for one remaining execution
ShutdownMark(id) ==
    /\ id \in sd_list
    /\ sd_list' = sd_list \ {id}
    /\ redis_exec_state' = SetExecutionState(redis_exec_state, id, "failed")
    /\ executions' = UpdateStatus(executions, id, "failed", Some(<<"Executor shutdown">>), None)
    /\ UNCHANGED <<aux_vars, now, controls, failures, settings, available, shutdown_event,
                   sd_sleeping, active_executions, heartbeat_tasks, local_locks,
                   pipeline_lock, retry_counter, stage_executions, tasks>>

(***************************************************************************)
(* The planner applied to a pipeline definition                            *)
(***************************************************************************)
engine_vars == <<now, controls, reply, failures, settings, available, shutdown_event,
                 sd_sleeping, sd_list, active_executions, heartbeat_tasks,
                 local_locks, pipeline_lock, redis_exec_state, retry_counter,
                 executions, stage_executions, tasks>>

\* PipelineEngine.validate_pipeline(pipeline)
Validate ==
    /\ plan.errors = None
    /\ plan' = [plan EXCEPT !.errors = Some(validate_pipeline(plan.stages))]
    /\ UNCHANGED <<engine_vars, call, proto_vars, watch_vars, side_vars>>

\* PipelineEngine.get_execution_order(pipeline)
PlanOrder ==
    /\ plan.order = None
    /\ plan' = [plan EXCEPT !.order = Some(get_execution_order(plan.stages))]
    /\ UNCHANGED <<engine_vars, call, proto_vars, watch_vars, side_vars>>

\* PipelineExecutor._get_execution_order(context.stages)
PlanEngineOrder ==
    /\ plan.engine_order = None
    /\ plan' = [plan EXCEPT !.engine_order = Some(GetExecutionOrder(plan.stages))]
    /\ UNCHANGED <<engine_vars, call, proto_vars, watch_vars, side_vars>>

TaskStep(t) ==
    \/ \E stats \in StatsInputs(Len(PipelineStages(tasks[t].pipeline_id))) : Admit(t, stats)
    \/ Activate(t)
    \/ BeginStages(t)
    \/ PausedPoll(t)
    \/ \E outcome \in HandlerOutcomes : HandlerReturn(t, outcome)
    \/ FinalizeDb(t)

Next ==
    \/ \E t \in Tasks, p \in Pipelines, elapsed \in Elapsed : StartRequest(t, p, elapsed)
    \/ \E t \in Tasks : TaskStep(t)
    \/ \E id \in RequestIds : StopRequest(id)
    \/ \E id \in DOMAIN executions : PauseRequest(id)
    \/ \E id \in DOMAIN executions : ResumeRequest(id)
    \/ ShutdownBegin
    \/ ShutdownWake
    \/ \E id \in sd_list : ShutdownMark(id)

Spec == Init /\ [][Next]_vars

\* One start request only: the other coroutine slots are never used.
SoloInit == Start({1})

SoloSpec == SoloInit /\ [][Next]_vars

\* The event loop runs every coroutine that is ready: a Redis call
\* returns, a handler returns or is timed out by wait_for, a sleep ends.
LiveSoloSpec == SoloSpec /\ \A t \in Tasks : WF_vars(TaskStep(t))

\* One slot, and clients that make a pause and a stop request.
ControlInit ==
    plan = NoPlan /\ call = NoCall /\ ProtoStart /\ EngineStart({1}, Deployments, MaxControl + MaxControl)

ControlSpec == ControlInit /\ [][Next]_vars

\* ControlSpec with the event loop running every coroutine that is ready.
LiveControlSpec == ControlSpec /\ \A t \in Tasks : WF_vars(TaskStep(t))

\* One slot, in a deployment that blocks high risk or one that only
\* assesses it.
AdmitInit ==
    /\ plan = NoPlan /\ call = NoCall /\ ProtoStart
    /\ EngineStart({1}, {<<StrictSettings, TRUE>>, <<WatchfulSettings, TRUE>>}, MaxControl)

AdmitSpec == AdmitInit /\ [][Next]_vars

\* One start request, for any stored definition.
DraftNext ==
    \/ Next
    \/ \E t \in Tasks, p \in DraftPipelines, elapsed \in Elapsed : StartRequest(t, p, elapsed)

DraftSpec == SoloInit /\ [][DraftNext]_vars

\* The planner on its own: a pipeline definition is drawn, the engine is
\* idle.
PlanInit ==
    /\ \E n \in 0..MaxStages :
          \E ids \in StageNamings(n), deps \in [1..n -> DepLists] :
              plan = [NoPlan EXCEPT !.stages = StageList(ids, deps)]
    /\ call = NoCall
    /\ ProtoStart
    /\ EngineStart({}, {<<DefaultSettings, TRUE>>}, 0)

PlanNext == Validate \/ PlanOrder \/ PlanEngineOrder

PlanSpec == PlanInit /\ [][PlanNext]_vars

(***************************************************************************)
(* AISafetyEngine on its own: one call of _get_risk_level or of            *)
(* select_safe_action is drawn, the engine is idle.                        *)
(***************************************************************************)
RiskLevels == {"low", "medium", "high", "critical"}

\* context["error"]: absent, an empty text, a text
ErrorInputs == {None, Some(<<>>), Some(<<"boom">>)}

\* context["anomaly"]: absent, or a dict with a type
AnomalyInputs == {None, Some([type |-> "error_burst"]), Some([type |-> "duration_spike"])}

RiskLevelCalls == {[fn |-> "_get_risk_level", args |-> <<score>>, result |-> None] :
                      score \in 0..MaxScore}

SafeActionCalls ==
    {[fn |-> "select_safe_action", args |-> <<e, a, l, c, r, m>>, result |-> None] :
        e \in ErrorInputs, a \in AnomalyInputs, l \in RiskLevels, c \in BOOLEAN,
        r \in 0..MaxRetryInput, m \in 0..MaxRetryInput}

\* AISafetyEngine()._get_risk_level(score) under Settings() defaults
GetRiskLevelCall ==
    /\ call.fn = "_get_risk_level"
    /\ call.result = None
    /\ call' = [call EXCEPT !.result =
                   Some(GetRiskLevel(call.args[1], RiskThresholds(DefaultSettings)))]
    /\ UNCHANGED <<engine_vars, plan, proto_vars, watch_vars, side_vars>>

\* select_safe_action(context, is_stage_critical, retry_count, max_retries)
SelectSafeActionCall ==
    /\ call.fn = "select_safe_action"
    /\ call.result = None
    /\ call' = [call EXCEPT !.result =
                   Some(SelectSafeAction(call.args[1], call.args[2], call.args[3],
                                         call.args[4], call.args[5], call.args[6]))]
    /\ UNCHANGED <<engine_vars, plan, proto_vars, watch_vars, side_vars>>

SafetyInit ==
    /\ call \in RiskLevelCalls \cup SafeActionCalls
    /\ plan = NoPlan
    /\ ProtoStart
    /\ EngineStart({}, {<<DefaultSettings, TRUE>>}, 0)

SafetyNext == GetRiskLevelCall \/ SelectSafeActionCall

SafetySpec == SafetyInit /\ [][SafetyNext]_vars

(***************************************************************************)
(* Heartbeats and the search for stale executions                          *)
(***************************************************************************)
\* send_heartbeat: SET heartbeat:{id} now EX HEARTBEAT_TTL
SendHeartbeat(hb, id) == IF available THEN (id :> now) @@ hb ELSE hb

\* check_heartbeat: the key is gone HEARTBEAT_TTL seconds after it was set
CheckHeartbeat(hb, id) ==
    IF available /\ id \in DOMAIN hb /\ now - hb[id] < HEARTBEAT_TTL
    THEN Some(hb[id]) ELSE None

\* is_execution_alive
IsExecutionAlive(hb, id) ==
    LET last_heartbeat == CheckHeartbeat(hb, id)
    IN IF last_heartbeat = None THEN FALSE
       ELSE now - Val(last_heartbeat) < HEARTBEAT_TTL

\* get_running_executions: the set running_executions gets an id with the
\* state running and loses it with a terminal state.
GetRunningExecutions(rs) ==
    IF available THEN {id \in DOMAIN rs : rs[id] \in {"running", "paused"}} ELSE {}

watch_frame == <<plan, call, reply, proto_vars, side_vars, controls, failures, settings, available,
                 shutdown_event, sd_sleeping, sd_list, pipeline_lock, redis_exec_state,
                 retry_counter, executions, stage_executions>>

\* One round of _heartbeat_loop
HeartbeatLoop(id) ==
    /\ id \in heartbeat_tasks
    /\ heartbeat' = SendHeartbeat(heartbeat, id)
    /\ UNCHANGED <<watch_frame, now, stale, tasks, active_executions, heartbeat_tasks,
                   local_locks>>

\* cleanup_stale_executions: the ids are returned, nothing is written.
CleanupStaleExecutions ==
    /\ stale' = Some({id \in GetRunningExecutions(redis_exec_state) :
                         ~IsExecutionAlive(heartbeat, id)})
    /\ UNCHANGED <<watch_frame, now, heartbeat, tasks, active_executions, heartbeat_tasks,
                   local_locks>>

\* The process is killed while an execution is active: its coroutines and
\* its memory are gone, Redis and the database stay as they are.
Crash ==
    /\ DOMAIN active_executions # {}
    /\ tasks' = [t \in Tasks |-> [IdleTask EXCEPT !.pc = "off"]]
    /\ active_executions' = <<>>
    /\ heartbeat_tasks' = {}
    /\ local_locks' = {}
    /\ UNCHANGED <<watch_frame, now, heartbeat, stale>>

\* Time passes with no coroutine left.
Wait(elapsed) ==
    /\ \A t \in Tasks : tasks[t].pc = "off"
    /\ now + elapsed <= MaxClock
    /\ now' = now + elapsed
    /\ UNCHANGED <<watch_frame, heartbeat, stale, tasks, active_executions, heartbeat_tasks,
                   local_locks>>

WatchNext ==
    \/ Next
    \/ \E id \in heartbeat_tasks : HeartbeatLoop(id)
    \/ CleanupStaleExecutions
    \/ Crash
    \/ Wait(HEARTBEAT_TTL)

\* One slot; the event loop runs every ready coroutine, and the search for
\* stale executions is run again and again.
WatchSpec ==
    /\ SoloInit
    /\ [][WatchNext]_vars
    /\ \A t \in Tasks : WF_vars(TaskStep(t))
    /\ WF_vars(CleanupStaleExecutions)

(***************************************************************************)
(* The in-memory service of src/backend: pipelines_db, executions_db and   *)
(* the synchronous PipelineExecutor, one action per route or background    *)
(* task.  Pipeline and execution ids are the numbers of their uuid4 draw.  *)
(***************************************************************************)
HTTP_201_CREATED == 201
HTTP_202_ACCEPTED == 202

TERMINAL_STATUSES == {"completed", "failed", "cancelled"}

\* The stage lists clients send: none, A then B, B naming A twice, A and B
\* naming each other.
ProtoStageInputs ==
    {<<>>,
     StageList(<<"A", "B">>, <<<<>>, <<"A">>>>),
     StageList(<<"A", "B">>, <<<<>>, <<"A", "A">>>>),
     StageList(<<"A", "B">>, <<<<"B">>, <<"A">>>>)}

\* d with d[k] = v
Put(d, k, v) == [x \in DOMAIN d \cup {k} |-> IF x = k THEN v ELSE d[x]]

\* Execution.duration
Duration(execution) ==
    IF execution.completed_at # None
    THEN Some(Val(execution.completed_at) - execution.started_at)
    ELSE None

\* Execution(...) with the defaults of the dataclass
Execution(pipeline_id, total_stages) ==
    [pipeline_id |-> pipeline_id, status |-> "pending", started_at |-> now,
     completed_at |-> None, error |-> None, stages_completed |-> 0,
     total_stages |-> total_stages, last_callback_type |-> None,
     airflow |-> None, logs |-> 0]

\* PipelineExecutor.execute for a pipeline that passed validation: every
\* stage of the order runs (no stage handler raises).  It logs the start,
\* the order, four entries per stage and the completion.
execute(pipeline_id, stages) ==
    LET execution_order == get_execution_order(stages)
    IN [Execution(pipeline_id, Len(stages)) EXCEPT
           !.status = "completed",
           !.stages_completed = Len(execution_order),
           !.completed_at = Some(now),
           !.logs = 3 + 4 * Len(execution_order)]

proto_engine_vars == <<plan, call, watch_vars, side_vars, controls, failures, settings, available, shutdown_event,
                       sd_sleeping, sd_list, active_executions, heartbeat_tasks,
                       local_locks, pipeline_lock, redis_exec_state, retry_counter,
                       executions, stage_executions, tasks>>

\* POST /pipelines: the pipeline is stored only if it is valid.
create_pipeline(stages) ==
    /\ uuids < MaxUuids
    /\ uuids' = uuids + 1
    /\ IF validate_pipeline(stages) # <<>>
       THEN /\ reply' = Response("create_pipeline", uuids', HTTP_400_BAD_REQUEST)
            /\ UNCHANGED pipelines_db
       ELSE /\ reply' = Response("create_pipeline", uuids', HTTP_201_CREATED)
            /\ pipelines_db' = Put(pipelines_db, uuids', stages)
    /\ UNCHANGED <<now, executions_db, background_tasks, proto_engine_vars>>

\* PUT /pipelines/{id}: the stored object gets the new stages (stages #
\* None) and is validated afterwards.
update_pipeline(pipeline_id, stages) ==
    /\ IF pipeline_id \notin DOMAIN pipelines_db
       THEN /\ reply' = Response("update_pipeline", pipeline_id, HTTP_404_NOT_FOUND)
            /\ UNCHANGED pipelines_db
       ELSE LET pipeline == IF stages # None THEN Val(stages)
                            ELSE pipelines_db[pipeline_id]
            IN /\ pipelines_db' = [pipelines_db EXCEPT ![pipeline_id] = pipeline]
               /\ reply' = Response("update_pipeline", pipeline_id,
                                    IF validate_pipeline(pipeline) # <<>>
                                    THEN HTTP_400_BAD_REQUEST ELSE HTTP_200_OK)
    /\ UNCHANGED <<now, uuids, executions_db, background_tasks, proto_engine_vars>>

\* DELETE /pipelines/{id}
delete_pipeline(pipeline_id) ==
    /\ IF pipeline_id \notin DOMAIN pipelines_db
       THEN /\ reply' = Response("delete_pipeline", pipeline_id, HTTP_404_NOT_FOUND)
            /\ UNCHANGED pipelines_db
       ELSE /\ reply' = Response("delete_pipeline", pipeline_id, HTTP_200_OK)
            /\ pipelines_db' = [k \in DOMAIN pipelines_db \ {pipeline_id} |-> pipelines_db[k]]
    /\ UNCHANGED <<now, uuids, executions_db, background_tasks, proto_engine_vars>>

\* POST /executions: initialize_execution stores a pending record, the
\* background task is queued.
create_execution(pipeline_id) ==
    /\ uuids < MaxUuids
    /\ IF pipeline_id \notin DOMAIN pipelines_db
       THEN /\ reply' = Response("create_execution", pipeline_id, HTTP_404_NOT_FOUND)
            /\ UNCHANGED <<uuids, executions_db, background_tasks>>
       ELSE /\ uuids' = uuids + 1
            /\ executions_db' =
                  Put(executions_db, uuids',
                      Execution(pipeline_id, Len(pipelines_db[pipeline_id])))
            /\ background_tasks' = background_tasks \cup {<<pipeline_id, uuids'>>}
            /\ reply' = Response("create_execution", uuids', HTTP_202_ACCEPTED)
    /\ UNCHANGED <<now, pipelines_db, proto_engine_vars>>

\* execute_pipeline_background(pipeline_id, execution_id)
execute_pipeline_background(pipeline_id, execution_id) ==
    /\ <<pipeline_id, execution_id>> \in background_tasks
    /\ background_tasks' = background_tasks \ {<<pipeline_id, execution_id>>}
    /\ IF pipeline_id \notin DOMAIN pipelines_db
       THEN \* KeyError
            executions_db' =
               IF execution_id \in DOMAIN executions_db
               THEN [executions_db EXCEPT ![execution_id] =
                        [@ EXCEPT !.status = "failed", !.error = Some(<<"KeyError">>)]]
               ELSE executions_db
       ELSE IF validate_pipeline(pipelines_db[pipeline_id]) # <<>>
       THEN \* ValueError raised by execute
            executions_db' =
               IF execution_id \in DOMAIN executions_db
               THEN [executions_db EXCEPT ![execution_id] =
                        [@ EXCEPT !.status = "failed",
                                  !.error = Some(<<"Invalid pipeline">>)]]
               ELSE executions_db
       ELSE LET result == execute(pipeline_id, pipelines_db[pipeline_id])
                merged ==
                   IF execution_id \in DOMAIN executions_db
                   THEN LET existing == executions_db[execution_id]
                            kept == [result EXCEPT
                                        !.started_at = existing.started_at,
                                        !.last_callback_type = existing.last_callback_type,
                                        !.airflow = existing.airflow,
                                        !.logs = existing.logs + result.logs]
                        IN IF /\ existing.status \in TERMINAL_STATUSES
                              /\ Truthy(existing.last_callback_type)
                           THEN [kept EXCEPT !.status = existing.status,
                                             !.completed_at = existing.completed_at,
                                             !.error = existing.error]
                           ELSE kept
                   ELSE result
            IN executions_db' = Put(executions_db, execution_id, merged)
    /\ UNCHANGED <<now, reply, uuids, pipelines_db, proto_engine_vars>>

\* DELETE /executions/{id}
cancel_execution(execution_id) ==
    /\ IF execution_id \notin DOMAIN executions_db
       THEN /\ reply' = Response("cancel_execution", execution_id, HTTP_404_NOT_FOUND)
            /\ UNCHANGED executions_db
       ELSE IF executions_db[execution_id].status \notin {"pending", "running"}
       THEN /\ reply' = Response("cancel_execution", execution_id, HTTP_400_BAD_REQUEST)
            /\ UNCHANGED executions_db
       ELSE /\ reply' = Response("cancel_execution", execution_id, HTTP_200_OK)
            /\ executions_db' = [executions_db EXCEPT ![execution_id] =
                                    [@ EXCEPT !.status = "cancelled",
                                              !.completed_at = Some(now)]]
    /\ UNCHANGED <<now, uuids, pipelines_db, background_tasks, proto_engine_vars>>

\* A second passes.
Tick ==
    /\ now < MaxTime
    /\ now' = now + 1
    /\ UNCHANGED <<reply, proto_vars, proto_engine_vars>>

ProtoInit ==
    plan = NoPlan /\ call = NoCall /\ ProtoStart /\ EngineStart({}, {<<DefaultSettings, TRUE>>}, 0)

ProtoNext ==
    \/ \E stages \in ProtoStageInputs : create_pipeline(stages)
    \/ \E pipeline_id \in 1..MaxUuids, stages \in {None} \cup {Some(x) : x \in ProtoStageInputs} :
          update_pipeline(pipeline_id, stages)
    \/ \E pipeline_id \in 1..MaxUuids : delete_pipeline(pipeline_id)
    \/ \E pipeline_id \in 1..MaxUuids : create_execution(pipeline_id)
    \/ \E task \in background_tasks : execute_pipeline_background(task[1], task[2])
    \/ \E execution_id \in 1..MaxUuids : cancel_execution(execution_id)
    \/ Tick

ProtoSpec == ProtoInit /\ [][ProtoNext]_vars

(***************************************************************************)
(* The Airflow routes of the in-memory service: a DAG triggers a run and   *)
(* reports its progress with callbacks.                                    *)
(***************************************************************************)
HTTP_500_INTERNAL_SERVER_ERROR == 500

\* The fields class Settings of src/backend/config.py declares.
SettingsFields ==
    {"APP_NAME", "APP_VERSION", "DEBUG", "API_PREFIX", "CORS_ORIGINS",
     "DATABASE_URL", "HOST", "PORT", "LOG_LEVEL", "LOG_REQUESTS",
     "LOG_REQUEST_BODY", "LOG_RESPONSE_BODY", "SENSITIVE_FIELDS"}

\* AirflowCallbackRequest annotates callback_type twice; the class keeps
\* the later annotation, str, and a str has no .value.
CallbackTypeAnnotation == "str"

\* AirflowCallbackTypeSchema
CallbackTypes == {"success", "failure", "retry", "running", "cancelled"}

\* The lineages a DAG sends with a trigger, and the ones callbacks carry.
TriggerLineages == {[dag_id |-> "dag-a", dag_run_id |-> "run-a"]}
CallbackLineages == [dag_id : {"dag-a", "dag-b"}, dag_run_id : {"run-a", "run-b"}]

\* AirflowCallbackRequest bodies
CallbackInputs ==
    [execution_id : 1..MaxUuids, callback_type : CallbackTypes,
     lineage : CallbackLineages]

\* POST /airflow/trigger
trigger_from_airflow(pipeline_id, lineage) ==
    /\ uuids < MaxUuids
    /\ IF pipeline_id \notin DOMAIN pipelines_db
       THEN /\ reply' = Response("trigger_from_airflow", pipeline_id, HTTP_404_NOT_FOUND)
            /\ UNCHANGED <<uuids, executions_db, background_tasks>>
       ELSE /\ uuids' = uuids + 1
            /\ executions_db' =
                  Put(executions_db, uuids',
                      [Execution(pipeline_id, Len(pipelines_db[pipeline_id])) EXCEPT
                          !.airflow = Some(lineage), !.logs = 1])
            /\ background_tasks' = background_tasks \cup {<<pipeline_id, uuids'>>}
            /\ reply' = Response("trigger_from_airflow", uuids', HTTP_202_ACCEPTED)
    /\ UNCHANGED <<now, pipelines_db, proto_engine_vars>>

\* _validate_execution_lineage raises: a recorded, non-empty dag_id or
\* dag_run_id differs from the callback's.
LineageConflict(execution, lineage) ==
    /\ execution.airflow # None
    /\ \/ Val(execution.airflow).dag_id # "" /\ lineage.dag_id # Val(execution.airflow).dag_id
       \/ /\ Val(execution.airflow).dag_run_id # ""
          /\ lineage.dag_run_id # Val(execution.airflow).dag_run_id

\* The record after the status branches, the context update and the log
\* entry of airflow_callback.
ApplyCallback(execution, callback) ==
    LET ct == callback.callback_type
        moved ==
           IF ct = "success"
           THEN [execution EXCEPT !.status = "completed", !.completed_at = Some(now),
                                  !.error = None]
           ELSE IF ct = "failure"
           THEN [execution EXCEPT !.status = "failed", !.completed_at = Some(now),
                                  !.error = Some(<<"Airflow reported failure">>)]
           ELSE IF ct = "running"
           THEN [execution EXCEPT !.status = "running", !.completed_at = None]
           ELSE IF ct = "cancelled"
           THEN [execution EXCEPT !.status = "cancelled", !.completed_at = Some(now)]
           ELSE [execution EXCEPT !.status = "pending", !.completed_at = None]
    IN [moved EXCEPT !.airflow = Some(callback.lineage),
                     !.last_callback_type = Some(<<ct>>),
                     !.logs = @ + 1]

\* POST /airflow/callback as it would run with AIRFLOW_CALLBACK_SECRET
\* declared (empty) and callback_type typed as the enumeration.
airflow_callback_Declared(callback) ==
    LET id == callback.execution_id
    IN /\ IF id \notin DOMAIN executions_db
          THEN /\ reply' = Response("airflow_callback", id, HTTP_404_NOT_FOUND)
               /\ UNCHANGED executions_db
          ELSE IF LineageConflict(executions_db[id], callback.lineage)
          THEN /\ reply' = Response("airflow_callback", id, HTTP_409_CONFLICT)
               /\ UNCHANGED executions_db
          ELSE /\ reply' = Response("airflow_callback", id, HTTP_200_OK)
               /\ executions_db' =
                     [executions_db EXCEPT ![id] = ApplyCallback(@, callback)]
       /\ UNCHANGED <<now, uuids, pipelines_db, background_tasks, proto_engine_vars>>

\* POST /airflow/callback.  Reading settings.AIRFLOW_CALLBACK_SECRET
\* raises AttributeError (Settings declares no such field), and so does
\* callback.callback_type.value on a str; the global exception handler
\* answers 500.
airflow_callback(callback) ==
    LET id == callback.execution_id
    IN /\ IF "AIRFLOW_CALLBACK_SECRET" \notin SettingsFields
          THEN /\ reply' = Response("airflow_callback", id, HTTP_500_INTERNAL_SERVER_ERROR)
               /\ UNCHANGED executions_db
          ELSE IF id \notin DOMAIN executions_db
          THEN /\ reply' = Response("airflow_callback", id, HTTP_404_NOT_FOUND)
               /\ UNCHANGED executions_db
          ELSE IF CallbackTypeAnnotation = "str"
          THEN /\ reply' = Response("airflow_callback", id, HTTP_500_INTERNAL_SERVER_ERROR)
               /\ UNCHANGED executions_db
          ELSE IF LineageConflict(executions_db[id], callback.lineage)
          THEN /\ reply' = Response("airflow_callback", id, HTTP_409_CONFLICT)
               /\ UNCHANGED executions_db
          ELSE /\ reply' = Response("airflow_callback", id, HTTP_200_OK)
               /\ executions_db' =
                     [executions_db EXCEPT ![id] = ApplyCallback(@, callback)]
       /\ UNCHANGED <<now, uuids, pipelines_db, background_tasks, proto_engine_vars>>

AirflowInit == ProtoInit

AirflowNext ==
    \/ \E stages \in ProtoStageInputs : create_pipeline(stages)
    \/ \E pipeline_id \in 1..MaxUuids, lineage \in TriggerLineages :
          trigger_from_airflow(pipeline_id, lineage)
    \/ \E task \in background_tasks : execute_pipeline_background(task[1], task[2])
    \/ \E callback \in CallbackInputs : airflow_callback(callback)
    \/ \E execution_id \in 1..MaxUuids : cancel_execution(execution_id)
    \/ Tick

AirflowSpec == AirflowInit /\ [][AirflowNext]_vars

(***************************************************************************)
(* ExecutionLockCRUD: the lock table of the durable store.  Its methods    *)
(* are synchronous, a call runs without suspension.  A row has the         *)
(* autoincrement id, the pipeline id (declared unique) and expires_at;     *)
(* seq is the last id given.                                               *)
(***************************************************************************)
LockPipelines == {PipeA, PipeB}
LockTimeouts == {1, 2}

\* the rows of pipeline_id
LocksOf(tbl, pipeline_id) == {r \in tbl.rows : r.pipeline_id = pipeline_id}

\* cleanup_expired with the comparison turned round
CleanupExpired_Unexpired(tbl) ==
    [tbl EXCEPT !.rows = {r \in tbl.rows : ~(r.expires_at > now)}]

\* cleanup_expired: DELETE WHERE expires_at < now
CleanupExpired(tbl) ==
    [tbl EXCEPT !.rows = {r \in tbl.rows : ~(r.expires_at < now)}]

lock_frame == <<engine_vars, plan, proto_vars, watch_vars, ai_insights, route_vars>>

\* acquire_lock(db, pipeline_id, execution_id, timeout_seconds)
acquire_lock(pipeline_id, timeout_seconds) ==
    /\ execution_locks.seq < MaxLockRows
    /\ LET cleaned == CleanupExpired(execution_locks)
           expired == Cardinality(execution_locks.rows) - Cardinality(cleaned.rows)
       IN IF LocksOf(cleaned, pipeline_id) # {}
          THEN /\ execution_locks' = cleaned
               /\ call' = [fn |-> "acquire_lock", args |-> <<pipeline_id, timeout_seconds>>,
                           result |-> Some([ok |-> FALSE, expired |-> expired])]
          ELSE /\ execution_locks' =
                     [rows |-> cleaned.rows \cup
                                  {[id |-> cleaned.seq + 1, pipeline_id |-> pipeline_id,
                                    expires_at |-> now + timeout_seconds]},
                      seq |-> cleaned.seq + 1]
               /\ call' = [fn |-> "acquire_lock", args |-> <<pipeline_id, timeout_seconds>>,
                           result |-> Some([ok |-> TRUE, expired |-> expired])]
    /\ UNCHANGED lock_frame

\* release_lock(db, pipeline_id): the first row of the pipeline is deleted
release_lock(pipeline_id) ==
    /\ IF LocksOf(execution_locks, pipeline_id) # {}
       THEN LET lock == CHOOSE r \in LocksOf(execution_locks, pipeline_id) :
                           \A q \in LocksOf(execution_locks, pipeline_id) : r.id <= q.id
            IN /\ execution_locks' = [execution_locks EXCEPT !.rows = @ \ {lock}]
               /\ call' = [fn |-> "release_lock", args |-> <<pipeline_id>>,
                           result |-> Some([ok |-> TRUE, expired |-> 0])]
       ELSE /\ UNCHANGED execution_locks
            /\ call' = [fn |-> "release_lock", args |-> <<pipeline_id>>,
                        result |-> Some([ok |-> FALSE, expired |-> 0])]
    /\ UNCHANGED lock_frame

\* is_locked(db, pipeline_id)
is_locked(pipeline_id) ==
    /\ LET cleaned == CleanupExpired(execution_locks)
       IN /\ execution_locks' = cleaned
          /\ call' = [fn |-> "is_locked", args |-> <<pipeline_id>>,
                      result |-> Some([ok |-> LocksOf(cleaned, pipeline_id) # {},
                                       expired |-> Cardinality(execution_locks.rows)
                                                     - Cardinality(cleaned.rows)])]
    /\ UNCHANGED lock_frame

\* cleanup_expired(db)
cleanup_expired ==
    /\ LET cleaned == CleanupExpired(execution_locks)
       IN /\ execution_locks' = cleaned
          /\ call' = [fn |-> "cleanup_expired", args |-> <<>>,
                      result |-> Some([ok |-> TRUE,
                                       expired |-> Cardinality(execution_locks.rows)
                                                     - Cardinality(cleaned.rows)])]
    /\ UNCHANGED lock_frame

LockInit == ProtoInit

LockNext ==
    \/ \E pipeline_id \in LockPipelines, timeout_seconds \in LockTimeouts :
          acquire_lock(pipeline_id, timeout_seconds)
    \/ \E pipeline_id \in LockPipelines : release_lock(pipeline_id)
    \/ \E pipeline_id \in LockPipelines : is_locked(pipeline_id)
    \/ cleanup_expired
    \/ Tick

LockSpec == LockInit /\ [][LockNext]_vars

(***************************************************************************)
(* The pipeline routes and the pipeline cache                              *)
(* (src/pipeline/backend/api/routes/pipelines.py, core/redis_state.py).    *)
(* A route coroutine suspends at the Redis calls it awaits; the database   *)
(* block between two of them is atomic.                                    *)
(***************************************************************************)
Definitions == 1..2
WriteRoutes == {"update_pipeline", "activate_pipeline", "deactivate_pipeline",
                "delete_pipeline"}

\* The types of the values of PipelineDetailResponse.model_dump(): the
\* default mode keeps python objects, created_at is a datetime.
ModelDumpTypes ==
    [definition |-> "dict", is_active |-> "bool", created_at |-> "datetime", rev |-> "int"]

\* The types json.dumps encodes without a default hook
JsonTypes == {"dict", "list", "str", "int", "float", "bool", "NoneType"}

\* json.dumps(data): None stands for the TypeError it raises on a value of
\* another type
json_dumps(data) ==
    IF \E f \in DOMAIN data : ModelDumpTypes[f] \notin JsonTypes
    THEN None
    ELSE Some(<<"json", data>>)

\* json.loads(data) of a string json.dumps made
json_loads(data) == data[2]

\* _pipeline_to_detail_response(pipeline)
PipelineToDetailResponse(pipeline) ==
    [definition |-> pipeline.definition, is_active |-> pipeline.is_active,
     created_at |-> pipeline.created_at, rev |-> pipeline.rev]

\* PipelineCRUD.get_by_id
RowOf(pipeline_id) ==
    IF pipeline_id \in DOMAIN pipeline_rows THEN Some(pipeline_rows[pipeline_id]) ELSE None

\* a write route of pipeline_id has committed and not returned
WriteInFlight(pipeline_id) ==
    \E c \in Clients : /\ route_calls[c].pc = "invalidate"
                       /\ route_calls[c].pipeline_id = pipeline_id

cache_frame == <<engine_vars, plan, call, proto_vars, watch_vars, lock_vars, ai_insights, lock_ctx>>

\* get_pipeline up to the return of get_cached_pipeline: the GET of the
\* cache key, or None without Redis
GetCachedPipeline(c, pipeline_id) ==
    /\ route_calls[c].pc \in {"idle", "done"}
    /\ route_calls' = [route_calls EXCEPT ![c] =
          [pc |-> "cached", fn |-> "get_pipeline", pipeline_id |-> pipeline_id,
           cached |-> IF available /\ pipeline_id \in DOMAIN pipeline_cache
                      THEN Some(json_loads(pipeline_cache[pipeline_id]))
                      ELSE None,
           floor |-> IF WriteInFlight(pipeline_id) THEN None ELSE Some(RowOf(pipeline_id)),
           status |-> None, data |-> None]]
    /\ UNCHANGED <<cache_frame, pipeline_rows, pipeline_cache>>

\* get_pipeline from there: the cached response, or the row of the table
\* and cache_pipeline.  json.dumps runs before the SET is awaited; its
\* TypeError is not a RedisError and reaches the global exception handler.
GetPipelineAnswer(c) ==
    /\ route_calls[c].pc = "cached"
    /\ LET r == route_calls[c]
           pipeline == RowOf(r.pipeline_id)
           response == PipelineToDetailResponse(Val(pipeline))
       IN IF r.cached # None
          THEN /\ route_calls' = [route_calls EXCEPT ![c] =
                     [r EXCEPT !.pc = "done", !.status = Some(200), !.data = r.cached]]
               /\ UNCHANGED pipeline_cache
          ELSE IF pipeline = None
          THEN /\ route_calls' = [route_calls EXCEPT ![c] =
                     [r EXCEPT !.pc = "done", !.status = Some(404)]]
               /\ UNCHANGED pipeline_cache
          ELSE IF available /\ json_dumps(response) = None
          THEN /\ route_calls' = [route_calls EXCEPT ![c] =
                     [r EXCEPT !.pc = "done", !.status = Some(500)]]
               /\ UNCHANGED pipeline_cache
          ELSE /\ pipeline_cache' =
                     IF available
                     THEN (r.pipeline_id :> Val(json_dumps(response))) @@ pipeline_cache
                     ELSE pipeline_cache
               /\ route_calls' = [route_calls EXCEPT ![c] =
                     [r EXCEPT !.pc = "done", !.status = Some(200), !.data = Some(response)]]
    /\ UNCHANGED <<cache_frame, pipeline_rows>>

\* update_pipeline, activate_pipeline, deactivate_pipeline and
\* delete_pipeline up to db.commit()
PipelineWriteCommit(c, fn, pipeline_id, definition) ==
    /\ route_calls[c].pc \in {"idle", "done"}
    /\ LET pipeline == RowOf(pipeline_id)
           call_ == [IdleCall EXCEPT !.fn = fn, !.pipeline_id = pipeline_id]
       IN IF pipeline = None
          THEN /\ route_calls' = [route_calls EXCEPT ![c] =
                     [call_ EXCEPT !.pc = "done", !.status = Some(404)]]
               /\ UNCHANGED pipeline_rows
          ELSE /\ Val(pipeline).rev < MaxWrites
               /\ LET old == Val(pipeline)
                      row == [CASE fn = "update_pipeline" -> [old EXCEPT !.definition = definition]
                                [] fn = "activate_pipeline" -> [old EXCEPT !.is_active = TRUE]
                                [] OTHER -> [old EXCEPT !.is_active = FALSE]
                              EXCEPT !.rev = old.rev + 1]
                  IN /\ pipeline_rows' =
                           IF fn = "delete_pipeline"
                           THEN [k \in DOMAIN pipeline_rows \ {pipeline_id} |-> pipeline_rows[k]]
                           ELSE [pipeline_rows EXCEPT ![pipeline_id] = row]
                     /\ route_calls' = [route_calls EXCEPT ![c] =
                           [call_ EXCEPT !.pc = "invalidate",
                                         !.data = IF fn = "update_pipeline"
                                                  THEN Some(PipelineToDetailResponse(row))
                                                  ELSE None]]
    /\ UNCHANGED <<cache_frame, pipeline_cache>>

\* the same routes from there: invalidate_cache and the response
PipelineWriteInvalidate(c) ==
    /\ route_calls[c].pc = "invalidate"
    /\ pipeline_cache' =
          IF available
          THEN [k \in DOMAIN pipeline_cache \ {route_calls[c].pipeline_id} |-> pipeline_cache[k]]
          ELSE pipeline_cache
    /\ route_calls' = [route_calls EXCEPT ![c] = [@ EXCEPT !.pc = "done", !.status = Some(200)]]
    /\ UNCHANGED <<cache_frame, pipeline_rows>>

CacheInit ==
    /\ plan = NoPlan /\ call = NoCall /\ ProtoStart
    /\ EngineStart({}, {<<DefaultSettings, TRUE>>, <<DefaultSettings, FALSE>>}, 0)

CacheNext ==
    \/ \E c \in Clients, pipeline_id \in Pipelines : GetCachedPipeline(c, pipeline_id)
    \/ \E c \in Clients : GetPipelineAnswer(c)
    \/ \E c \in Clients, fn \in WriteRoutes, pipeline_id \in Pipelines, definition \in Definitions :
          PipelineWriteCommit(c, fn, pipeline_id, definition)
    \/ \E c \in Clients : PipelineWriteInvalidate(c)

CacheSpec == CacheInit /\ [][CacheNext]_vars

(***************************************************************************)
(* acquire_execution_lock without Redis                                    *)
(* (src/pipeline/backend/core/redis_state.py): callers that enter and      *)
(* leave the context manager while _available is False.                    *)
(***************************************************************************)
Callers == 1..MaxCallers
LockExecutions == {ExecId(0, PipeA), ExecId(1, PipeA)}

ctx_frame == <<now, controls, reply, failures, settings, available, shutdown_event,
               sd_sleeping, sd_list, active_executions, heartbeat_tasks,
               pipeline_lock, redis_exec_state, retry_counter,
               executions, stage_executions, tasks, plan, proto_vars, watch_vars,
               lock_vars, ai_insights, pipeline_rows, pipeline_cache, route_calls>>

\* the contexts caller c is inside
ContextsOf(c) == {x \in lock_ctx : x[1] = c}

\* async with acquire_execution_lock(execution_id), up to the yield: a
\* key that is present raises LockError inside the try, and the finally
\* block runs for this attempt too
EnterExecutionLock(c, execution_id) ==
    /\ ~available
    /\ ContextsOf(c) = {}
    /\ LET lock_key == ExecutionLockKey(execution_id)
       IN IF lock_key \in local_locks
          THEN /\ local_locks' = local_locks \ {lock_key}
               /\ UNCHANGED lock_ctx
               /\ call' = [fn |-> "acquire_execution_lock", args |-> <<c, execution_id>>,
                           result |-> Some(FALSE)]
          ELSE /\ local_locks' = local_locks \cup {lock_key}
               /\ lock_ctx' = lock_ctx \cup {<<c, execution_id>>}
               /\ call' = [fn |-> "acquire_execution_lock", args |-> <<c, execution_id>>,
                           result |-> Some(TRUE)]
    /\ UNCHANGED ctx_frame

\* the exit of the context: the finally block after the body
LeaveExecutionLock(c) ==
    /\ ~available
    /\ \E x \in ContextsOf(c) :
          /\ local_locks' = local_locks \ {ExecutionLockKey(x[2])}
          /\ lock_ctx' = lock_ctx \ {x}
          /\ call' = [fn |-> "acquire_execution_lock.exit", args |-> x,
                      result |-> Some(ExecutionLockKey(x[2]) \in local_locks)]
    /\ UNCHANGED ctx_frame

\* is_execution_locked(execution_id) without Redis
is_execution_locked(execution_id) ==
    /\ ~available
    /\ call' = [fn |-> "is_execution_locked", args |-> <<execution_id>>,
                result |-> Some(ExecutionLockKey(execution_id) \in local_locks)]
    /\ UNCHANGED <<ctx_frame, local_locks, lock_ctx>>

FallbackLockInit ==
    /\ plan = NoPlan /\ call = NoCall /\ ProtoStart
    /\ EngineStart({}, {<<DefaultSettings, FALSE>>}, 0)

FallbackLockNext ==
    \/ \E c \in Callers, execution_id \in LockExecutions : EnterExecutionLock(c, execution_id)
    \/ \E c \in Callers : LeaveExecutionLock(c)
    \/ \E execution_id \in LockExecutions : is_execution_locked(execution_id)

FallbackLockSpec == FallbackLockInit /\ [][FallbackLockNext]_vars

(***************************************************************************)
(* Properties                                                              *)
(***************************************************************************)
ActiveStatuses == {"pending", "running", "paused"}

\* The status changes of the execution state machine.
AllowedStatusChange ==
    {<<"pending", "running">>, <<"running", "paused">>, <<"paused", "running">>}
        \cup (ActiveStatuses \X TerminalStatuses)

\* C1: once the stored status of an execution is terminal (completed,
\* failed, cancelled, rolled_back) it never changes again, and every
\* earlier change follows pending -> running <-> paused -> terminal.
C1_TerminalAbsorbing ==
    [][\A id \in DOMAIN executions :
          LET a == executions[id].status
              b == executions'[id].status
          IN a # b => <<a, b>> \in AllowedStatusChange]_vars

ActiveRows(p) ==
    {id \in DOMAIN executions : /\ executions[id].pipeline_id = p
                                /\ executions[id].status \in ActiveStatuses}

\* C2: while the coordination port is healthy, at most one execution of a
\* pipeline is pending, running or paused at any time.
C2_SingleActive ==
    available => \A p \in Pipelines : Cardinality(ActiveRows(p)) <= 1

\* C3: a start request that arrives while another start request for the
\* same pipeline is in flight creates no rows and is answered 409 with a
\* body that names the cause; only the other one creates an execution.
C3_ConcurrentStart ==
    \A t \in Tasks :
        (available /\ tasks[t].http # None /\ tasks[t].inflight_seen # {})
            => /\ ~tasks[t].admitted
               /\ tasks[t].pc = "done"
               /\ Val(tasks[t].result).status = "rejected"
               /\ tasks[t].http = Some(409)

\* C4: in degraded mode a start request for a pipeline that has an active
\* execution on this engine is rejected as already running.
C4_DegradedDuplicate ==
    \A t \in Tasks :
        (~available /\ tasks[t].http # None /\ tasks[t].active_seen # {})
            => /\ ~tasks[t].admitted
               /\ tasks[t].pc = "done"
               /\ Val(tasks[t].result).status = "rejected"

\* C5: whenever execute_pipeline has ended after taking the pipeline lock,
\* the lock it took is no longer held.
C5_LockReleased ==
    \A t \in Tasks :
        (tasks[t].pc = "done" /\ tasks[t].took_lock)
            => ~(/\ LockHeldAt(now, tasks[t].pipeline_id)
                 /\ Val(pipeline_lock[tasks[t].pipeline_id]).owner = t)

RowsOf(id, status) ==
    {s \in StageIds : /\ <<id, s>> \in DOMAIN stage_executions
                      /\ stage_executions[<<id, s>>].status = status}

\* The stages of t's execution whose retries are exhausted.
Exhausted(t, critical) ==
    {s \in RowsOf(tasks[t].execution_id, "failed") : Stage(t, s).is_critical = critical}

\* The step in which the execution t created gets its terminal status.
Finishes(t) ==
    tasks[t].admitted /\ tasks[t].pc = "mark_db" /\ tasks'[t].pc = "done"

PositionIn(order, s) == CHOOSE i \in 1..Len(order) : order[i] = s

\* C6: when a critical stage has exhausted its retries, no later stage has
\* run, the execution ends failed with an error naming the stage, and the
\* stored completed_stages is the number of stages completed before it.
C6_CriticalFailure ==
    [][\A t \in Tasks :
          (Finishes(t) /\ Exhausted(t, TRUE) # {}) =>
              LET id == tasks[t].execution_id
                  s == CHOOSE x \in Exhausted(t, TRUE) : TRUE
                  order == tasks[t].order
              IN /\ Exhausted(t, TRUE) = {s}
                 /\ \A i \in 1..Len(order) :
                        i > PositionIn(order, s) => tasks[t].invocations[order[i]] = 0
                 /\ executions'[id].status = "failed"
                 /\ executions'[id].error = Some(<<"Stage", s, "failed">>)
                 /\ executions'[id].completed_stages = Cardinality(RowsOf(id, "completed"))]_vars

\* C7: when only non-critical stages have exhausted their retries (and the
\* run was not cancelled), their stage executions are failed, every other
\* stage is completed, and the execution ends completed with
\* completed_stages equal to the number of the other stages.
C7_NonCriticalFailure ==
    [][\A t \in Tasks :
          (/\ Finishes(t)
           /\ Exhausted(t, TRUE) = {}
           /\ Exhausted(t, FALSE) # {}
           /\ tasks[t].term # "cancelled") =>
              LET id == tasks[t].execution_id
                  others == {tasks[t].order[i] : i \in 1..Len(tasks[t].order)}
                                \ Exhausted(t, FALSE)
              IN /\ others = RowsOf(id, "completed")
                 /\ executions'[id].status = "completed"
                 /\ executions'[id].completed_stages = Cardinality(others)]_vars

\* Some handler invocation of t's execution has failed.
HandlerFailed(t) ==
    \E s \in StageIds :
        /\ <<tasks[t].execution_id, s>> \in DOMAIN stage_executions
        /\ LET row == stage_executions[<<tasks[t].execution_id, s>>]
           IN row.status = "failed" \/ row.retry_count > 0

\* A stop, pause or shutdown has been requested.
Interfered == controls.stop > 0 \/ controls.pause > 0 \/ shutdown_event

CompletedAll(t) ==
    LET id == tasks[t].execution_id
    IN /\ id \in DOMAIN executions
       /\ executions[id].status = "completed"
       /\ executions[id].completed_stages = executions[id].total_stages
       /\ Cardinality(RowsOf(id, "completed")) = executions[id].total_stages

\* C8: if every handler succeeds and no cancel, pause or shutdown is
\* requested, an admitted execution eventually is completed with
\* completed_stages = total_stages and every stage execution completed.
C8_HappyPathCompletes ==
    \A t \in Tasks :
        (tasks[t].admitted /\ tasks[t].pc = "activate")
            ~> (CompletedAll(t) \/ HandlerFailed(t) \/ Interfered)

C8_Witness ==
    \E t \in Tasks :
        tasks[t].admitted /\ CompletedAll(t) /\ ~HandlerFailed(t) /\ ~Interfered

\* The stage rows of the execution t created, with the stage and the
\* number of times its handler was invoked.
StageRuns(t) ==
    {[stage |-> Stage(t, s), row |-> stage_executions[<<tasks[t].execution_id, s>>],
      n |-> tasks[t].invocations[s]] :
        s \in {x \in StageIds : /\ tasks[t].admitted
                                /\ <<tasks[t].execution_id, x>> \in DOMAIN stage_executions}}

\* C9: the retry_count of a stage execution is the number of retries
\* performed (attempts made minus one) and never exceeds the stage's
\* max_retries; a stage that fails attempt 0 and succeeds on attempt 1 is
\* completed with retry_count = 1.
C9_RetryCount ==
    \A t \in Tasks : \A r \in StageRuns(t) :
        /\ r.row.retry_count <= r.stage.max_retries
        /\ r.n = 0 => (r.row.retry_count = 0 /\ r.row.status = "pending")
        /\ r.n > 0 => r.row.retry_count = r.n - 1

C9_Witness ==
    \E t \in Tasks : \E r \in StageRuns(t) :
        r.n = 2 /\ r.row.status = "completed" /\ r.row.retry_count = 1

AttemptsBounded ==
    \A t \in Tasks : \A r \in StageRuns(t) :
        /\ r.n <= r.stage.max_retries + 1
        /\ r.row.status = "failed" => r.n = r.stage.max_retries + 1
        /\ (r.stage.max_retries = 0 /\ r.row.status \in {"completed", "failed"}) => r.n = 1

NoAttemptAfterSuccess ==
    \A t \in Tasks : \A s \in StageIds :
        (/\ tasks[t].admitted
         /\ <<tasks[t].execution_id, s>> \in DOMAIN stage_executions
         /\ stage_executions[<<tasks[t].execution_id, s>>].status = "completed")
            => /\ tasks'[t].invocations[s] = tasks[t].invocations[s]
               /\ stage_executions'[<<tasks[t].execution_id, s>>].status = "completed"

\* C10: the handler of a stage with max_retries = m is invoked at most
\* m + 1 times; exactly m + 1 times when every attempt fails (and the stage
\* is then failed); exactly once when m = 0; never again after a success.
C10_AttemptBound == []AttemptsBounded /\ [][NoAttemptAfterSuccess]_vars

C10_Witness ==
    \E t \in Tasks : \E r \in StageRuns(t) :
        r.stage.max_retries = 1 /\ r.n = 2 /\ r.row.status = "failed"

\* C11: before attempt a >= 1 of a stage the runner has slept
\* retry_delay * backoff^(a-1), capped by the stage timeout (1, 2, 4 for
\* retry_delay 1 and backoff 2), and before attempt 0 it has not slept.
C11_BackoffDelay ==
    \A t \in Tasks :
        tasks[t].pc = "handler" =>
            LET stage == Stage(t, Val(tasks[t].current_stage))
                a == tasks[t].attempt
            IN IF a = 0 THEN tasks[t].slept = None
               ELSE tasks[t].slept =
                        Some(Min(stage.retry_delay * Pow(EXECUTOR_RETRY_BACKOFF, a - 1),
                                 stage.timeout))

\* order holds each stage of the list once, each after its dependencies
IsPlanOf(order, stages) ==
    /\ Len(order) = Len(stages)
    /\ \A i \in 1..Len(stages) :
          /\ Cardinality({k \in 1..Len(order) : order[k] = stages[i].id}) = 1
          /\ \A d \in Range(stages[i].dependencies) :
                \E k, l \in 1..Len(order) :
                    k < l /\ order[k] = d /\ order[l] = stages[i].id

Validated == plan.errors = Some(<<>>)

\* C12: for a pipeline that passes validation, the order either planner
\* emits holds every stage exactly once, each after all its dependencies.
C12_OrderComplete ==
    Validated =>
        /\ plan.order # None => IsPlanOf(Val(plan.order), plan.stages)
        /\ plan.engine_order # None => IsPlanOf(Val(plan.engine_order), plan.stages)

\* The smallest original index among the stages not yet emitted whose
\* dependencies have all been emitted (0 if there is none).
SmallestReady(stages, emitted) ==
    LET ready == {i \in 1..Len(stages) :
                     /\ stages[i].id \notin emitted
                     /\ Range(stages[i].dependencies) \subseteq emitted}
    IN IF ready = {} THEN 0 ELSE CHOOSE i \in ready : \A j \in ready : i <= j

ByIndex(order, stages) ==
    \A k \in 1..Len(order) :
        LET i == SmallestReady(stages, {order[j] : j \in 1..(k - 1)})
        IN i # 0 /\ order[k] = stages[i].id

\* C13: at every step either planner emits, among the stages whose
\* dependencies have all been emitted, the one with the smallest original
\* index.
C13_TieBreak ==
    Validated =>
        /\ plan.order # None => ByIndex(Val(plan.order), plan.stages)
        /\ plan.engine_order # None => ByIndex(Val(plan.engine_order), plan.stages)

\* The start requests for a pipeline with one of these validation errors.
Requested(kinds) ==
    {t \in Tasks :
        /\ tasks[t].http # None
        /\ \E e \in Range(validate_pipeline(PipelineStages(tasks[t].pipeline_id))) :
              e[1] \in kinds}

\* C14: a pipeline with an empty stage list, a duplicate stage id or a
\* dependency on a stage that does not exist is rejected before any stage
\* handler runs: no handler is invoked and it never runs or completes.
C14_InvalidRejected ==
    \A t \in Requested({"no stage", "duplicate stage ids", "invalid dependency"}) :
        /\ \A s \in StageIds : tasks[t].invocations[s] = 0
        /\ tasks[t].pc \notin {"handler", "paused"}
        /\ tasks[t].term # "completed"
        /\ tasks[t].result # None => Val(tasks[t].result).status # "completed"

\* C15: a start request for a pipeline whose dependency graph has a cycle
\* fails admission: no execution row and no stage execution row is created.
C15_CycleCreatesNoRow ==
    \A t \in Requested({"circular dependencies"}) :
        /\ ~tasks[t].admitted
        /\ tasks[t].execution_id \notin DOMAIN executions
        /\ \A s \in StageIds : <<tasks[t].execution_id, s>> \notin DOMAIN stage_executions

\* C17: applying to an execution the terminal status it already has
\* changes nothing: while the status stays the same terminal status,
\* completed_at and duration stay as the first application set them.
C17_TerminalIdempotent ==
    [][\A id \in DOMAIN executions :
          (/\ executions[id].status \in TerminalStatuses
           /\ executions'[id].status = executions[id].status) =>
              /\ executions'[id].completed_at = executions[id].completed_at
              /\ executions'[id].duration = executions[id].duration]_vars

\* C18: once the cancel flag of an execution is set while no handler of it
\* is running (it is between stages or waits in the paused poll), no step
\* invokes a stage handler of that execution.
C18_CancelBeforeHandler ==
    [][\A t \in Tasks :
          (tasks[t].is_cancelled /\ tasks[t].pc \in {"begin", "paused"})
              => tasks'[t].invocations = tasks[t].invocations]_vars

\* C19: a resume request for an execution whose pause request was accepted
\* (its paused flag is set) is accepted, and leaves the flag cleared.
C19_ResumeAfterPause ==
    [][(reply' # reply /\ reply' # None /\ Val(reply').op = "resume")
          => /\ Val(reply').code = HTTP_200_OK
             /\ ~tasks'[active_executions'[Val(reply').id]].is_paused]_vars

\* C20: a stop request for an execution that does not exist is answered
\* 404, one for an execution whose status is terminal is answered 409, and
\* neither changes a record, a flag or a lock.
C20_StopRejected ==
    [][(/\ reply' # reply /\ reply' # None /\ Val(reply').op = "stop"
        /\ \/ Val(reply').id \notin DOMAIN executions
           \/ executions[Val(reply').id].status \in TerminalStatuses)
          => /\ Val(reply').code = IF Val(reply').id \notin DOMAIN executions
                                   THEN HTTP_404_NOT_FOUND
                                   ELSE HTTP_409_CONFLICT
             /\ UNCHANGED <<executions, stage_executions, tasks, active_executions,
                            pipeline_lock, local_locks, redis_exec_state>>]_vars

\* C16: in the in-memory service, an execution whose status is terminal
\* has completed_at set and duration = completed_at - started_at, and every
\* execution has 0 <= stages_completed <= total_stages.
C16_TerminalTimestamps ==
    \A id \in DOMAIN executions_db :
        LET execution == executions_db[id]
        IN /\ execution.status \in TERMINAL_STATUSES =>
                 /\ execution.completed_at # None
                 /\ Duration(execution) =
                       Some(Val(execution.completed_at) - execution.started_at)
           /\ 0 <= execution.stages_completed
           /\ execution.stages_completed <= execution.total_stages

\* C21: an execution whose row is running, whose heartbeats have stopped
\* and whose last heartbeat is older than HEARTBEAT_TTL is eventually
\* failed with the reason "liveness lost", and its pipeline lock released.
HeartbeatsLost(id) ==
    /\ executions[id].status = "running"
    /\ id \notin heartbeat_tasks
    /\ available
    /\ id \in DOMAIN heartbeat
    /\ now - heartbeat[id] >= HEARTBEAT_TTL

Reaped(id) ==
    /\ executions[id].status = "failed"
    /\ executions[id].error = Some(<<"liveness lost">>)
    /\ pipeline_lock[executions[id].pipeline_id] = None

C21_LivenessReaper ==
    (\E id \in DOMAIN executions : HeartbeatsLost(id))
        ~> (\E id \in DOMAIN executions : Reaped(id))

\* C22: no state shows a terminal execution state in Redis while the
\* row of that execution in the database has a status that is not terminal.
C22_StoreBeforeCache ==
    \A id \in DOMAIN redis_exec_state :
        redis_exec_state[id] \in TerminalStatuses =>
            /\ id \in DOMAIN executions
            /\ executions[id].status \in TerminalStatuses

\* C23: with the default thresholds the risk level of a score is low
\* below 0.2, medium from 0.2, high from 0.4 and critical from 0.7.
C23_RiskBands ==
    (call.fn = "_get_risk_level" /\ call.result # None) =>
        LET score == call.args[1]
        IN Val(call.result) =
              IF score < AI_RISK_THRESHOLD_LOW THEN "low"
              ELSE IF score < AI_RISK_THRESHOLD_MEDIUM THEN "medium"
              ELSE IF score < AI_RISK_THRESHOLD_HIGH THEN "high"
              ELSE "critical"

\* The arguments of a finished select_safe_action call.
Selected == call.fn = "select_safe_action" /\ call.result # None
SelError == call.args[1]
SelAnomaly == call.args[2]
SelRiskLevel == call.args[3]
SelCritical == call.args[4]
SelRetryCount == call.args[5]
SelMaxRetries == call.args[6]

\* C25: select_safe_action returns retry_stage whenever the context has
\* an error (with a text that is not empty) and retry_count < max_retries.
C25_RetryWhileRetriesRemain ==
    (Selected /\ Truthy(SelError) /\ SelRetryCount < SelMaxRetries)
        => Val(call.result) = "retry_stage"

\* C26: select_safe_action returns skip_stage whenever the context has an
\* error or an anomaly, the stage is not critical and retry_count >=
\* max_retries.
C26_SkipNonCritical ==
    (/\ Selected
     /\ SelError # None \/ SelAnomaly # None
     /\ ~SelCritical
     /\ SelRetryCount >= SelMaxRetries)
        => Val(call.result) = "skip_stage"

\* C27: select_safe_action returns rollback only for a critical stage with
\* risk level high or critical and an error burst anomaly.
C27_RollbackOnlyHighRisk ==
    (Selected /\ Val(call.result) = "rollback")
        => /\ SelCritical
           /\ SelRiskLevel \in {"high", "critical"}
           /\ SelAnomaly # None
           /\ Val(SelAnomaly).type = "error_burst"

\* C24: a start request is blocked if and only if AI_BLOCK_HIGH_RISK is
\* set and the assessed risk level is high or critical; a blocked request
\* has no execution row and no stage row, and none of its stages has run.
Blocked(t) == tasks[t].result # None /\ Val(tasks[t].result).status = "blocked"

C24_BlockIffHighRisk ==
    \A t \in Tasks :
        tasks[t].high_risk # None =>
            /\ Blocked(t) <=> (settings.AI_BLOCK_HIGH_RISK /\ Val(tasks[t].high_risk))
            /\ Blocked(t) =>
                  /\ tasks[t].execution_id \notin DOMAIN executions
                  /\ \A sid \in StageIds :
                        /\ <<tasks[t].execution_id, sid>> \notin DOMAIN stage_executions
                        /\ tasks[t].invocations[sid] = 0

C24_Witness ==
    \E t \in Tasks :
        /\ Blocked(t)
        /\ settings.AI_BLOCK_HIGH_RISK
        /\ tasks[t].high_risk = Some(TRUE)


\* C28: a callback whose dag_id or dag_run_id differs from the one recorded
\* when the execution was triggered is answered 409, and the execution's
\* record (status, completed_at, error, context, logs) stays as it was.
C28_LineageMismatchRejected ==
    [][\A callback \in CallbackInputs :
          (/\ airflow_callback(callback)
           /\ callback.execution_id \in DOMAIN executions_db
           /\ LineageConflict(executions_db[callback.execution_id], callback.lineage))
          => /\ Val(reply').code = HTTP_409_CONFLICT
             /\ executions_db'[callback.execution_id] = executions_db[callback.execution_id]]_vars

\* The engine ended the execution: completed or failed, and no callback
\* has written the record.
EngineEnded(execution) ==
    /\ execution.status \in {"completed", "failed"}
    /\ ~Truthy(execution.last_callback_type)

PastDuplicateCheck(t) ==
    /\ tasks[t].pc # "idle"
    /\ ~(tasks[t].result # None /\ Val(tasks[t].result).status = "rejected")

\* C30: execution ids are globally unique: two start requests that got
\* past duplicate-run prevention have different execution ids, also when
\* they start within the same second.
C30_UniqueExecutionIds ==
    \A t, u \in Tasks :
        (t # u /\ PastDuplicateCheck(t) /\ PastDuplicateCheck(u))
            => tasks[t].execution_id # tasks[u].execution_id


\* C31: the lock table holds at most one row per pipeline after any
\* sequence of acquire_lock, release_lock and cleanup_expired calls;
\* acquire_lock fails while an unexpired lock of the pipeline exists and
\* succeeds once the existing lock is past its expiry (or there is none).
C31_OneLockPerPipeline ==
    [][/\ \A p \in LockPipelines : Cardinality(LocksOf(execution_locks', p)) <= 1
       /\ (call'.fn = "acquire_lock" /\ now' = now)
             => LET held == LocksOf(execution_locks, call'.args[1])
                IN /\ (\E r \in held : r.expires_at > now) => ~Val(call'.result).ok
                   /\ (\A r \in held : r.expires_at < now) => Val(call'.result).ok]_vars

\* acquire_lock has succeeded for a pipeline whose earlier lock it found
\* past its expiry: it removed an expired row, and the row of the other
\* pipeline is still there.
C31_Witness ==
    /\ call.fn = "acquire_lock"
    /\ Val(call.result).ok
    /\ Val(call.result).expired >= 1
    /\ \A p \in LockPipelines : Cardinality(LocksOf(execution_locks, p)) = 1


\* The execution of slot t has ended after the critical stage sid, and no
\* other stage, failed with its retries exhausted, the risk level assessed
\* at admission was high or critical, and the errors of the run make an
\* error burst.
CriticalFailureInBurst(t, sid) ==
    /\ tasks[t].pc = "done"
    /\ tasks[t].high_risk = Some(TRUE)
    /\ failures >= settings.AI_ANOMALY_ERROR_THRESHOLD
    /\ <<tasks[t].execution_id, sid>> \in DOMAIN stage_executions
    /\ \A s \in StageIds :
          (/\ <<tasks[t].execution_id, s>> \in DOMAIN stage_executions
           /\ stage_executions[<<tasks[t].execution_id, s>>].status = "failed") <=> s = sid
    /\ Stage(t, sid).is_critical

\* C32: when a critical stage fails with retries exhausted while the
\* pre-execution risk level is high or critical and an error burst is
\* present, the execution is moved to rolled_back, an insight is recorded
\* for it, and no stage after the failed one is run.
C32_RollbackOnErrorBurst ==
    \A t \in Tasks, sid \in StageIds :
        CriticalFailureInBurst(t, sid)
            => /\ executions[tasks[t].execution_id].status = "rolled_back"
               /\ \E i \in 1..Len(ai_insights) :
                     /\ ai_insights[i].execution_id = tasks[t].execution_id
                     /\ ai_insights[i].insight_type = "anomaly"
               /\ LET order == ExecutionOrder[tasks[t].pipeline_id]
                  IN \A i, j \in 1..Len(order) :
                        (order[i] = sid /\ i < j) => tasks[t].invocations[order[j]] = 0


\* C33: whenever the supervisor has skipped a failed non-critical stage,
\* an insight with action_taken = "skip_stage" exists for the execution
\* by the time the execution is terminal.
C33_SkipInsight ==
    \A t \in Tasks :
        (/\ tasks[t].skipped # {}
         /\ tasks[t].execution_id \in DOMAIN executions
         /\ executions[tasks[t].execution_id].status \in TerminalStatuses)
            => \E i \in 1..Len(ai_insights) :
                  /\ ai_insights[i].execution_id = tasks[t].execution_id
                  /\ ai_insights[i].action_taken = Some("skip_stage")


\* the stage rows of execution id that ended completed
CompletedRows(id) ==
    {sid \in StageIds : /\ <<id, sid>> \in DOMAIN stage_executions
                        /\ stage_executions[<<id, sid>>].status = "completed"}

\* C34: in every reachable state the completed_stages counter of an
\* execution equals the number of its stages whose stage execution ended
\* completed; a stage whose last attempt failed is never counted, whatever
\* the error text.
C34_CompletedStagesCounter ==
    \A t \in Tasks :
        tasks[t].admitted =>
            LET counter == IF tasks[t].pc = "done"
                           THEN Val(tasks[t].result).completed_stages
                           ELSE tasks[t].completed_stages
            IN counter = Cardinality(CompletedRows(tasks[t].execution_id))


\* A stop request has been accepted for the execution of slot t while it
\* waits in the paused poll.
StoppedWhilePaused(t) ==
    /\ tasks[t].pc = "paused"
    /\ tasks[t].is_paused
    /\ tasks[t].is_cancelled

\* C35: the paused poll honours the cancel flag: if a stop request is
\* accepted while an execution is paused, the execution eventually reaches
\* cancelled, without any resume request.
C35_PausedPollHonoursCancel ==
    \A t \in Tasks :
        StoppedWhilePaused(t)
            ~> (/\ tasks[t].execution_id \in DOMAIN executions
                /\ executions[tasks[t].execution_id].status = "cancelled")


\* C36: once the shutdown signal is set no further stage handler is
\* invoked: an execution that is between stages or waits in the paused
\* poll while the signal is set runs no other stage.
C36_NoStageAfterShutdown ==
    [][\A t \in Tasks :
          (shutdown_event /\ tasks[t].pc \in {"begin", "paused"})
              => tasks'[t].invocations = tasks[t].invocations]_vars


\* the execution row and the stage rows of execution id in the tables e, se
RecordsOf(e, se, id) ==
    <<IF id \in DOMAIN e THEN Some([status |-> e[id].status, error |-> e[id].error])
      ELSE None,
      [k \in {x \in DOMAIN se : x[1] = id} |-> se[k]]>>

\* C37: handling of one execution never writes another execution's
\* records: a step of the coroutine of slot t (admission, row creation, a
\* stage, a failure) leaves the status, the error and the stage rows of
\* the execution every other slot has created unchanged.
C37_OtherExecutionsUntouched ==
    [][\A t, u \in Tasks :
          (/\ t # u
           /\ tasks'[t].pc # tasks[t].pc
           /\ tasks[u].admitted)
              => RecordsOf(executions', stage_executions', tasks[u].execution_id)
                    = RecordsOf(executions, stage_executions, tasks[u].execution_id)]_vars


\* C38: the registry of active executions and the registry of heartbeat
\* tasks hold the same execution ids, an id is registered only while its
\* execute_pipeline call is inside the stage loop, and once
\* execute_pipeline has returned neither registry holds its id.
C38_RegistriesAgree ==
    /\ DOMAIN active_executions = heartbeat_tasks
    /\ \A id \in DOMAIN active_executions \cup heartbeat_tasks :
          \E t \in Tasks : tasks[t].execution_id = id /\ tasks[t].in_loop
    /\ \A t \in Tasks :
          tasks[t].pc = "done"
              => tasks[t].execution_id \notin DOMAIN active_executions \cup heartbeat_tasks

\* a write route of the pipeline of request r had returned when r arrived,
\* and none was between its commit and its return then
ArrivedAfterWrite(r) ==
    /\ r.floor # None
    /\ Val(r.floor) # None => Val(Val(r.floor)).rev > 0

\* C39: a get_pipeline that arrives after an update, activate, deactivate
\* or delete of the pipeline has returned answers with the row as that
\* write left it or as a later write left it, or with not-found once the
\* row is deleted.
C39_GetAfterWriteIsFresh ==
    \A c \in Clients :
        LET r == route_calls[c]
        IN (r.fn = "get_pipeline" /\ r.pc = "done" /\ ArrivedAfterWrite(r)) =>
              \/ /\ r.status = Some(404)
                 /\ r.pipeline_id \notin DOMAIN pipeline_rows
              \/ /\ r.status = Some(200)
                 /\ Val(r.floor) # None
                 /\ Val(r.data).rev >= Val(Val(r.floor)).rev

\* C40: without Redis, while a caller is inside the context of
\* acquire_execution_lock for an execution id the local lock of that id is
\* held, whatever other callers attempt, and no two callers are inside
\* the context of the same execution id.
C40_LocalLockHeldByOwner ==
    /\ \A x \in lock_ctx : ExecutionLockKey(x[2]) \in local_locks
    /\ \A x, y \in lock_ctx : x[2] = y[2] => x = y

====
